---------------------------- MODULE Spec2Model ----------------------------
(***************************************************************************)
(* A model of scrapii (loiz1/scrapii): the ethical-scraping policy gate    *)
(* and the scan driver of src/index.tsx (validateRobotsTxt,                *)
(* extractUserAgentSection, analyzeTermsOfService, handleScrape), the      *)
(* input checks of the sanitizer module, and the realistic scorer of       *)
(* src/src/utils/security_integrator.ts.                                   *)
(*                                                                         *)
(* Texts (robots.txt bodies, URLs, header values) are TLA+ strings and the *)
(* JavaScript string methods the code calls on them are operators over     *)
(* their characters.                                                       *)
(***************************************************************************)
EXTENDS Integers, Sequences, FiniteSets, TLC

(***************************************************************************)
(* JavaScript string methods                                               *)
(***************************************************************************)

\* String.prototype.toLowerCase on one character (ASCII).
LowerChar(c) ==
    CASE c = "A" -> "a" [] c = "B" -> "b" [] c = "C" -> "c" [] c = "D" -> "d"
      [] c = "E" -> "e" [] c = "F" -> "f" [] c = "G" -> "g" [] c = "H" -> "h"
      [] c = "I" -> "i" [] c = "J" -> "j" [] c = "K" -> "k" [] c = "L" -> "l"
      [] c = "M" -> "m" [] c = "N" -> "n" [] c = "O" -> "o" [] c = "P" -> "p"
      [] c = "Q" -> "q" [] c = "R" -> "r" [] c = "S" -> "s" [] c = "T" -> "t"
      [] c = "U" -> "u" [] c = "V" -> "v" [] c = "W" -> "w" [] c = "X" -> "x"
      [] c = "Y" -> "y" [] c = "Z" -> "z" [] OTHER -> c

\* String.prototype.toUpperCase on one character (ASCII); used to render
\* upper-case variants of a robots.txt directive.
UpperChar(c) ==
    CASE c = "a" -> "A" [] c = "b" -> "B" [] c = "c" -> "C" [] c = "d" -> "D"
      [] c = "e" -> "E" [] c = "f" -> "F" [] c = "g" -> "G" [] c = "h" -> "H"
      [] c = "i" -> "I" [] c = "j" -> "J" [] c = "k" -> "K" [] c = "l" -> "L"
      [] c = "m" -> "M" [] c = "n" -> "N" [] c = "o" -> "O" [] c = "p" -> "P"
      [] c = "q" -> "Q" [] c = "r" -> "R" [] c = "s" -> "S" [] c = "t" -> "T"
      [] c = "u" -> "U" [] c = "v" -> "V" [] c = "w" -> "W" [] c = "x" -> "X"
      [] c = "y" -> "Y" [] c = "z" -> "Z" [] OTHER -> c

\* s.toLowerCase(), halving the string so that long ones stay shallow.
RECURSIVE ToLowerCase(_)
ToLowerCase(s) ==
    IF s = "" THEN ""
    ELSE IF Len(s) = 1 THEN LowerChar(s)
    ELSE LET h == Len(s) \div 2
         IN  ToLowerCase(SubSeq(s, 1, h)) \o ToLowerCase(SubSeq(s, h + 1, Len(s)))

\* s.toUpperCase()
RECURSIVE ToUpperCase(_)
ToUpperCase(s) ==
    IF s = "" THEN ""
    ELSE IF Len(s) = 1 THEN UpperChar(s)
    ELSE LET h == Len(s) \div 2
         IN  ToUpperCase(SubSeq(s, 1, h)) \o ToUpperCase(SubSeq(s, h + 1, Len(s)))

\* The character of s at position i (1-based), as a string.
CharAt(s, i) == IF i \in 1..Len(s) THEN SubSeq(s, i, i) ELSE ""

\* s.includes(sub)
Includes(s, sub) ==
    \E i \in 1..(Len(s) - Len(sub) + 1) : SubSeq(s, i, i + Len(sub) - 1) = sub

\* s.startsWith(p)
StartsWith(s, p) ==
    /\ Len(p) <= Len(s)
    /\ SubSeq(s, 1, Len(p)) = p

\* s.startsWith(p, i - 1): does p stand in s at position i?
StartsAt(s, i, p) ==
    /\ i >= 1
    /\ i + Len(p) - 1 <= Len(s)
    /\ SubSeq(s, i, i + Len(p) - 1) = p

IsSpace(c) == c \in {" ", "\t", "\r", "\n"}

RECURSIVE TrimStart(_)
TrimStart(s) ==
    IF s # "" /\ IsSpace(Head(s)) THEN TrimStart(Tail(s)) ELSE s

RECURSIVE TrimEnd(_)
TrimEnd(s) ==
    IF s # "" /\ IsSpace(SubSeq(s, Len(s), Len(s)))
    THEN TrimEnd(SubSeq(s, 1, Len(s) - 1))
    ELSE s

\* s.trim()
Trim(s) == TrimEnd(TrimStart(s))

\* s.split('\n'): the pieces between line feeds, in order (one more piece
\* than there are line feeds, the last one empty after a trailing line feed).
RECURSIVE SplitFrom(_, _)
SplitFrom(s, cur) ==
    LET breaks == {i \in 1..Len(s) : SubSeq(s, i, i) = "\n"}
    IN  IF breaks = {} THEN <<cur \o s>>
        ELSE LET first == CHOOSE i \in breaks : \A j \in breaks : i <= j
             IN  <<cur \o SubSeq(s, 1, first - 1)>>
                 \o SplitFrom(SubSeq(s, first + 1, Len(s)), "")

SplitLines(s) == SplitFrom(s, "")

\* The decimal digits of a natural number.
RECURSIVE NumberText(_)
NumberText(n) ==
    IF n < 10 THEN CharAt("0123456789", n + 1)
    ELSE NumberText(n \div 10) \o CharAt("0123456789", (n % 10) + 1)

RECURSIVE JoinWith(_, _)
JoinWith(parts, separator) ==
    IF parts = <<>> THEN ""
    ELSE IF Tail(parts) = <<>> THEN Head(parts)
    ELSE Head(parts) \o separator \o JoinWith(Tail(parts), separator)


(***************************************************************************)
(* HTTP: what a fetch() can come to                                        *)
(***************************************************************************)

\* The statuses the model's servers answer with.
Statuses == {200, 403, 404, 500}

\* fetch() rejected (network error, CORS failure, timeout).
Rejected == [outcome |-> "reject", status |-> 0, body |-> ""]

\* fetch() resolved with a response.
Resolved(status, body) == [outcome |-> "resolve", status |-> status, body |-> body]

\* Response.ok
ResponseOk(response) ==
    /\ response.outcome = "resolve"
    /\ response.status >= 200
    /\ response.status <= 299

(***************************************************************************)
(* Policy gate: robots.txt                                                 *)
(***************************************************************************)

\* const userAgent = 'ScrapiiBot/2.0'
UserAgent == "ScrapiiBot/2.0"

\* The for-loop of extractUserAgentSection over the remaining lines, with
\* its two locals; the result is sectionContent when the loop ends or breaks.
RECURSIVE ExtractLoop(_, _, _, _)
ExtractLoop(lines, userAgent, inTargetSection, sectionContent) ==
    IF lines = <<>> THEN sectionContent
    ELSE LET line == Head(lines)
             lowerLine == Trim(ToLowerCase(line))
         IN  IF StartsWith(lowerLine, "user-agent:")
             THEN IF \/ Includes(lowerLine, ToLowerCase(userAgent))
                     \/ Includes(lowerLine, "*")
                  THEN ExtractLoop(Tail(lines), userAgent, TRUE, line \o "\n")
                  ELSE IF inTargetSection
                       THEN sectionContent
                       ELSE ExtractLoop(Tail(lines), userAgent, inTargetSection,
                                        sectionContent)
             ELSE IF inTargetSection
                  THEN ExtractLoop(Tail(lines), userAgent, TRUE,
                                   sectionContent \o line \o "\n")
                  ELSE ExtractLoop(Tail(lines), userAgent, inTargetSection,
                                   sectionContent)

\* extractUserAgentSection: sectionContent.trim() || null, with null as ""
\* (the caller only tests the result for truthiness).
extractUserAgentSection(robotsText, userAgent) ==
    Trim(ExtractLoop(SplitLines(robotsText), userAgent, FALSE, ""))

\* validateRobotsTxt without its wildcard rule: only the tool's own section
\* can deny.
ValidateRobotsTextOwnOnly(robotsText) ==
    LET lowerText == ToLowerCase(robotsText)
        hasSpecificUserAgent ==
            Includes(lowerText, "user-agent: " \o ToLowerCase(UserAgent))
        userAgentSection == extractUserAgentSection(robotsText, UserAgent)
    IN  IF hasSpecificUserAgent /\ userAgentSection # ""
        THEN ~Includes(userAgentSection, "disallow: /")
        ELSE TRUE

\* validateRobotsTxt once the response is ok and its text is read.
ValidateRobotsText(robotsText) ==
    LET lowerText == ToLowerCase(robotsText)
        hasGeneralDisallow == Includes(lowerText, "disallow: /")
        hasSpecificUserAgent ==
            Includes(lowerText, "user-agent: " \o ToLowerCase(UserAgent))
        userAgentSection == extractUserAgentSection(robotsText, UserAgent)
        hasWildcardUserAgent == Includes(lowerText, "user-agent: *")
    IN  IF hasSpecificUserAgent /\ userAgentSection # ""
        THEN ~Includes(userAgentSection, "disallow: /")
        ELSE IF hasWildcardUserAgent /\ hasGeneralDisallow
             THEN FALSE
             ELSE TRUE

\* validateRobotsTxt failing closed: a robots.txt that cannot be had denies.
validateRobotsTxtFailClosed(response) ==
    IF response.outcome = "reject" THEN FALSE
    ELSE IF ~ResponseOk(response) THEN FALSE
    ELSE TRUE

\* validateRobotsTxt(baseUrl) given what its fetch came to: the catch block
\* and the !response.ok branch both answer true.
validateRobotsTxt(response) ==
    IF response.outcome = "reject" THEN TRUE
    ELSE IF ~ResponseOk(response) THEN TRUE
    ELSE ValidateRobotsText(response.body)

(***************************************************************************)
(* Input checks (sanitizeUserInput, validateScrapingUrl,                   *)
(* performSecurityAnalysis) and the URL parser they call                   *)
(***************************************************************************)

IsDigit(c) == c \in {"0", "1", "2", "3", "4", "5", "6", "7", "8", "9"}

DigitValue(c) ==
    CASE c = "0" -> 0 [] c = "1" -> 1 [] c = "2" -> 2 [] c = "3" -> 3
      [] c = "4" -> 4 [] c = "5" -> 5 [] c = "6" -> 6 [] c = "7" -> 7
      [] c = "8" -> 8 [] c = "9" -> 9

IsAlpha(c) ==
    LowerChar(c) \in {"a", "b", "c", "d", "e", "f", "g", "h", "i", "j", "k", "l", "m",
                      "n", "o", "p", "q", "r", "s", "t", "u", "v", "w", "x", "y", "z"}

\* \w
IsWordChar(c) == IsAlpha(c) \/ IsDigit(c) \/ c = "_"

\* \s
IsWhite(c) == IsSpace(c)

\* A character of a URL scheme after its first.
IsSchemeChar(c) == IsAlpha(c) \/ IsDigit(c) \/ c \in {"+", "-", "."}

\* A character that ends the host of a URL.
IsHostEnd(c) == c \in {"/", "\\", "?", "#"}

IsSlash(c) == c \in {"/", "\\"}

IsHostChar(c) == ~IsHostEnd(c)

\* Is c in the character class?
InClass(class, c) ==
    CASE class = "\\s" -> IsWhite(c)
      [] class = "\\w" -> IsWordChar(c)
      [] class = "/" -> IsSlash(c)
      [] class = "host" -> IsHostChar(c)
      [] class = "\\d" -> IsDigit(c)
      [] class = "[.\\-]" -> c \in {".", "-"}
      [] class = "[-_]" -> c \in {"-", "_"}
      [] class = "[.\\-@]" -> c \in {".", "-", "@"}
      [] class = "[:\\s]" -> c = ":" \/ IsWhite(c)
      [] class = "[.-@_\\s]" ->
            \/ IsDigit(c) \/ IsWhite(c)
            \/ c \in {".", "/", ":", ";", "<", "=", ">", "?", "@", "_"}

\* The first position at or after i whose character is not in the class
\* (Len(s) + 1 when the run reaches the end): where a greedy X* stops.
RunEnd(s, i, class) ==
    IF \E j \in i..Len(s) : ~InClass(class, CharAt(s, j))
    THEN CHOOSE j \in i..Len(s) :
            /\ ~InClass(class, CharAt(s, j))
            /\ \A k \in i..(j - 1) : InClass(class, CharAt(s, k))
    ELSE Len(s) + 1

\* The first position at or after i where sub starts, 0 when there is none.
IndexOfFrom(s, sub, i) ==
    IF \E j \in i..(Len(s) - Len(sub) + 1) : SubSeq(s, j, j + Len(sub) - 1) = sub
    THEN CHOOSE j \in i..(Len(s) - Len(sub) + 1) :
            /\ SubSeq(s, j, j + Len(sub) - 1) = sub
            /\ \A k \in i..(j - 1) : SubSeq(s, k, k + Len(sub) - 1) # sub
    ELSE 0

\* /word\s*\(/ on a lowercased string: eval\s*\( and expression\s*\(.
MatchesCall(lower, word) ==
    \E i \in 1..(Len(lower) - Len(word) + 1) :
        /\ SubSeq(lower, i, i + Len(word) - 1) = word
        /\ CharAt(lower, RunEnd(lower, i + Len(word), "\\s")) = "("

\* /on\w+\s*=/ on a lowercased string.
MatchesEventHandler(lower) ==
    \E i \in 1..(Len(lower) - 1) :
        /\ SubSeq(lower, i, i + 1) = "on"
        /\ LET w == RunEnd(lower, i + 2, "\\w")
           IN  /\ w > i + 2
               /\ CharAt(lower, RunEnd(lower, w, "\\s")) = "="

\* /<script[^>]*>.*?<\/script>/ on a lowercased string ('.' stops at a
\* line break).
MatchesScriptElement(lower) ==
    \E i \in 1..(Len(lower) - 6) :
        /\ SubSeq(lower, i, i + 6) = "<script"
        /\ LET gt == IndexOfFrom(lower, ">", i + 7)
           IN  /\ gt # 0
               /\ \E k \in (gt + 1)..(Len(lower) - 8) :
                     /\ SubSeq(lower, k, k + 8) = "</script>"
                     /\ \A m \in (gt + 1)..(k - 1) : CharAt(lower, m) \notin {"\n", "\r"}

\* /172\.(1[6-9]|2\d|3[0-1])\./
MatchesPrivate172(s) ==
    \E i \in 1..(Len(s) - 6) :
        /\ SubSeq(s, i, i + 3) = "172."
        /\ CharAt(s, i + 6) = "."
        /\ LET a == CharAt(s, i + 4)
               b == CharAt(s, i + 5)
           IN  \/ a = "1" /\ b \in {"6", "7", "8", "9"}
               \/ a = "2" /\ IsDigit(b)
               \/ a = "3" /\ b \in {"0", "1"}

\* dangerousPatterns of sanitizeUserInput: does one of them match?
MatchesDangerousPattern(s) ==
    LET lower == ToLowerCase(s)
    IN  \/ MatchesScriptElement(lower)
        \/ Includes(lower, "javascript:")
        \/ MatchesEventHandler(lower)
        \/ MatchesCall(lower, "eval")
        \/ MatchesCall(lower, "expression")
        \/ Includes(lower, "vbscript:")
        \/ Includes(lower, "data:")

\* new URL(s): the input with leading and trailing spaces stripped, as the
\* parser strips it.
UrlInput(s) == Trim(s)

\* Where the scheme of a URL ends (the position of its ':'), 0 when the
\* input starts with no scheme.
SchemeEnd(s) ==
    LET t == UrlInput(s)
        colon == IndexOfFrom(t, ":", 1)
    IN  IF /\ colon > 1
           /\ IsAlpha(CharAt(t, 1))
           /\ \A k \in 2..(colon - 1) : IsSchemeChar(CharAt(t, k))
        THEN colon
        ELSE 0

\* new URL(s).protocol, "" when the input has no scheme.
UrlProtocol(s) ==
    IF SchemeEnd(s) = 0 THEN "" ELSE ToLowerCase(SubSeq(UrlInput(s), 1, SchemeEnd(s)))

\* The host (with user info and port) of an http, https or ftp URL.
UrlAuthority(s) ==
    LET t == UrlInput(s)
        start == RunEnd(t, SchemeEnd(s) + 1, "/")
    IN  SubSeq(t, start, RunEnd(t, start, "host") - 1)

\* Does new URL(s) return (TRUE) or throw (FALSE)?  With no base URL the
\* input needs a scheme, and an http, https or ftp URL needs a host with no
\* forbidden character.
UrlParses(s) ==
    /\ SchemeEnd(s) # 0
    /\ UrlProtocol(s) \in {"http:", "https:", "ftp:"} =>
          /\ UrlAuthority(s) # ""
          /\ \A k \in 1..Len(UrlAuthority(s)) :
                CharAt(UrlAuthority(s), k) \notin {" ", "<", ">", "^", "|", "%"}

\* The chain of replace() calls that escapes HTML, on one character: '&'
\* is replaced first, so no later replacement touches an earlier one's text.
EscapeChar(c) ==
    CASE c = "&" -> "&amp;"
      [] c = "<" -> "&lt;"
      [] c = ">" -> "&gt;"
      [] c = "\"" -> "&quot;"
      [] c = "'" -> "&#x27;"
      [] OTHER -> c

RECURSIVE EscapeHtml(_)
EscapeHtml(s) ==
    IF s = "" THEN ""
    ELSE IF Len(s) = 1 THEN EscapeChar(s)
    ELSE LET h == Len(s) \div 2
         IN  EscapeHtml(SubSeq(s, 1, h)) \o EscapeHtml(SubSeq(s, h + 1, Len(s)))

\* maxLength: number = 1000
SanitizeMaxLength == 1000

\* sanitizeUserInput(input): [sanitized, isSafe].  When a dangerous pattern
\* matches, the code also deletes its matches from sanitized; callers read
\* sanitized only when isSafe, and the model leaves the matches in.
sanitizeUserInput(input) ==
    LET trimmed == Trim(input)
        truncated == IF Len(trimmed) > SanitizeMaxLength
                     THEN SubSeq(trimmed, 1, SanitizeMaxLength)
                     ELSE trimmed
        dangerous == MatchesDangerousPattern(truncated)
        looksLikeUrl == \/ StartsWith(ToLowerCase(truncated), "http://")
                        \/ StartsWith(ToLowerCase(truncated), "https://")
        malformed == looksLikeUrl /\ ~dangerous /\ ~UrlParses(truncated)
        sanitized == EscapeHtml(truncated)
    IN  [sanitized |-> sanitized,
         isSafe |-> ~dangerous /\ ~malformed /\ Len(sanitized) > 0]

\* if (url.length > 2048)
MaxUrlLength == 2048

\* suspiciousPatterns of validateScrapingUrl: does one of them match?
MatchesSuspiciousPattern(url) ==
    LET lower == ToLowerCase(url)
    IN  \/ Includes(lower, "localhost")
        \/ Includes(url, "127.0.0.1")
        \/ Includes(url, "0.0.0.0")
        \/ Includes(url, "10.")
        \/ Includes(url, "192.168.")
        \/ MatchesPrivate172(url)
        \/ Includes(lower, "file:")
        \/ Includes(lower, "ftp:")

\* validateScrapingUrl(url).isValid
validateScrapingUrl(url) ==
    /\ UrlParses(url)
    /\ UrlProtocol(url) \in {"http:", "https:"}
    /\ ~(Len(url) > MaxUrlLength)
    /\ ~MatchesSuspiciousPattern(url)

\* input.match(/[<>\"'&]/g).length
SpecialCharCount(input) ==
    Cardinality({i \in 1..Len(input) : CharAt(input, i) \in {"<", ">", "\"", "'", "&"}})

\* performSecurityAnalysis(input) in its default context 'general': score.
SecurityAnalysisScore(input) ==
    LET lower == ToLowerCase(input)
    IN  100
        - (IF Len(input) > 1000 THEN 10 ELSE 0)
        - (IF SpecialCharCount(input) > 10 THEN 15 ELSE 0)
        - (IF Includes(lower, "<script") THEN 50 ELSE 0)
        - (IF Includes(lower, "javascript:") THEN 50 ELSE 0)
        - (IF Includes(lower, "vbscript:") THEN 50 ELSE 0)
        - (IF MatchesCall(lower, "eval") THEN 50 ELSE 0)
        - (IF MatchesCall(lower, "expression") THEN 50 ELSE 0)

\* performSecurityAnalysis(input).riskLevel
performSecurityAnalysis(input) ==
    LET score == SecurityAnalysisScore(input)
    IN  IF score < 30 THEN "critical"
        ELSE IF score < 50 THEN "high"
        ELSE IF score < 70 THEN "medium"
        ELSE "low"

\* The checks handleScrape makes before it touches the network: "ok" when
\* the scan may start, else the check that rejected the input.
InputCheck(url) ==
    IF performSecurityAnalysis(url) \in {"critical", "high"} THEN "unsafe-input"
    ELSE IF ~sanitizeUserInput(url).isSafe THEN "malicious"
    ELSE IF ~validateScrapingUrl(sanitizeUserInput(url).sanitized) THEN "invalid-url"
    ELSE IF ~StartsWith(sanitizeUserInput(url).sanitized, "http") THEN "not-http"
    ELSE "ok"

(***************************************************************************)
(* Header validity (analyzeSecurityHeaders)                                *)
(***************************************************************************)

\* The longest run of digits s starts with: the capture of (\d+).
RECURSIVE LeadingDigits(_)
LeadingDigits(s) ==
    IF s # "" /\ IsDigit(Head(s)) THEN Head(s) \o LeadingDigits(Tail(s)) ELSE ""

\* parseInt on a string of digits.
RECURSIVE ParseDigits(_, _)
ParseDigits(s, acc) ==
    IF s = "" THEN acc ELSE ParseDigits(Tail(s), acc * 10 + DigitValue(Head(s)))

\* hsts.match(/max-age=(\d+)/)?.[1] || '0': the digits after the first
\* "max-age=" that has one digit at least after it, "0" when there is none.
RECURSIVE MaxAgeCapture(_)
MaxAgeCapture(s) ==
    IF Len(s) < 8 THEN "0"
    ELSE IF StartsWith(s, "max-age=") /\ LeadingDigits(SubSeq(s, 9, Len(s))) # ""
         THEN LeadingDigits(SubSeq(s, 9, Len(s)))
         ELSE MaxAgeCapture(Tail(s))

\* One year, in seconds.
OneYear == 31536000

\* cspValid without its unsafe-inline condition.
CspValidIgnoringInline(csp) ==
    /\ csp # ""
    /\ LET cspParts == ToLowerCase(csp)
       IN  /\ Includes(cspParts, "default-src")
           /\ Includes(cspParts, "script-src")

\* cspValid of analyzeSecurityHeaders.
CspValid(csp) ==
    /\ csp # ""
    /\ LET cspParts == ToLowerCase(csp)
       IN  /\ Includes(cspParts, "default-src")
           /\ Includes(cspParts, "script-src")
           /\ \/ ~Includes(cspParts, "unsafe-inline")
              \/ Includes(cspParts, "nonce-")
              \/ Includes(cspParts, "sha256-")

\* hstsValid with a strict comparison.
HstsValidAboveOneYear(hsts) ==
    /\ hsts # ""
    /\ Includes(hsts, "max-age=")
    /\ ParseDigits(MaxAgeCapture(hsts), 0) > OneYear

\* hstsValid of analyzeSecurityHeaders.
HstsValid(hsts) ==
    /\ hsts # ""
    /\ Includes(hsts, "max-age=")
    /\ ParseDigits(MaxAgeCapture(hsts), 0) >= OneYear

\* The headers analyzeSecurityHeaders reads.
AnalyzedHeaders ==
    {"content-security-policy", "strict-transport-security", "x-xss-protection",
     "x-content-type-options", "referrer-policy", "permissions-policy",
     "x-frame-options", "server", "x-powered-by"}

\* patterns.some(pattern => pattern.test(value)) for case-blind literals.
SomeIncluded(value, literals) ==
    \E literal \in literals : Includes(ToLowerCase(value), literal)

\* analyzeSecurityHeaders(headers); headers.get(name) is h[name], null is "".
analyzeSecurityHeaders(h) ==
    LET csp == h["content-security-policy"]
        hsts == h["strict-transport-security"]
        xssProtection == h["x-xss-protection"]
        contentType == h["x-content-type-options"]
        referrerPolicy == h["referrer-policy"]
        xFrameOptions == h["x-frame-options"]
        serverHeader == h["server"]
        poweredBy == h["x-powered-by"]
        xssValid ==
            IF xssProtection # "" THEN ToLowerCase(xssProtection) = "1; mode=block"
            ELSE IF csp # ""
            THEN Includes(ToLowerCase(csp), "object-src")
                 /\ Includes(ToLowerCase(csp), "script-src")
            ELSE FALSE
    IN  [csp |-> CspValid(csp),
         hsts |-> HstsValid(hsts),
         xss |-> xssValid,
         contentType |-> (contentType # "" /\ ToLowerCase(contentType) = "nosniff"),
         cspPresent |-> csp # "",
         hstsPresent |-> hsts # "",
         maxAge |-> IF hsts # "" THEN ParseDigits(MaxAgeCapture(hsts), 0) ELSE 0,
         xssProtectionPresent |-> xssProtection # "",
         referrerPolicyPresent |-> referrerPolicy # "",
         referrerPolicyValid |->
             (referrerPolicy # ""
              /\ SomeIncluded(referrerPolicy,
                              {"no-referrer", "strict-origin-when-cross-origin",
                               "no-referrer-when-downgrade"})),
         frameOptionsPresent |-> xFrameOptions # "",
         frameOptionsValid |->
             (xFrameOptions # ""
              /\ SomeIncluded(xFrameOptions, {"deny", "sameorigin", "allow-from"})),
         serverExposed |->
             (serverHeader # ""
              /\ SomeIncluded(serverHeader,
                              {"apache", "nginx", "iis", "lighttpd", "tomcat"})),
         poweredByExposed |->
             (poweredBy # ""
              /\ SomeIncluded(poweredBy,
                              {"express", "php", "laravel", "django", "rails"}))]

(***************************************************************************)
(* RealisticSecurityCalculator                                             *)
(*                                                                         *)
(* Qualities and penalty modifiers are kept in tenths (0.7 is 7), header   *)
(* points in tenths of a point; they are decimal fractions with one digit  *)
(* in the code.  Math.round is exact away from a tie; at a tie of the      *)
(* decimal value (k + 0.5) the rounding error of the IEEE-754 sums decides  *)
(* between k and k + 1, and MathRound gives both.                          *)
(***************************************************************************)

KnownSiteTypes ==
    {"ecommerce-standard", "ecommerce-premium", "enterprise-smb",
     "enterprise-corporate", "portfolio-professional", "saas-platform",
     "government", "financial", "healthcare", "education", "media-publisher",
     "blog-influencer", "landing-page-conversion", "DEFAULT"}

SITE_BASELINES(siteType) ==
    CASE siteType = "ecommerce-standard" -> 75
      [] siteType = "ecommerce-premium" -> 85
      [] siteType = "enterprise-smb" -> 70
      [] siteType = "enterprise-corporate" -> 80
      [] siteType = "portfolio-professional" -> 65
      [] siteType = "saas-platform" -> 78
      [] siteType = "government" -> 90
      [] siteType = "financial" -> 95
      [] siteType = "healthcare" -> 85
      [] siteType = "education" -> 75
      [] siteType = "media-publisher" -> 70
      [] siteType = "blog-influencer" -> 60
      [] siteType = "landing-page-conversion" -> 65
      [] siteType = "DEFAULT" -> 80

\* this.SITE_BASELINES[siteType] || this.SITE_BASELINES.DEFAULT
BaselineFor(siteType) ==
    IF siteType \in KnownSiteTypes THEN SITE_BASELINES(siteType)
    ELSE SITE_BASELINES("DEFAULT")

\* HEADER_WEIGHTS, in the order Object.entries walks it.
HEADER_WEIGHTS ==
    << [name |-> "content-security-policy", weight |-> 25, criticality |-> "CRITICAL"],
       [name |-> "strict-transport-security", weight |-> 20, criticality |-> "CRITICAL"],
       [name |-> "x-frame-options", weight |-> 15, criticality |-> "HIGH"],
       [name |-> "x-content-type-options", weight |-> 12, criticality |-> "HIGH"],
       [name |-> "referrer-policy", weight |-> 8, criticality |-> "MEDIUM"],
       [name |-> "permissions-policy", weight |-> 6, criticality |-> "MEDIUM"],
       [name |-> "x-xss-protection", weight |-> 3, criticality |-> "LOW"] >>

HeaderNames == {HEADER_WEIGHTS[i].name : i \in 1..Len(HEADER_WEIGHTS)}

VULNERABILITY_PENALTIES ==
    [CRITICAL |-> 25, HIGH |-> 12, MEDIUM |-> 5, LOW |-> 2]

Min(a, b) == IF a <= b THEN a ELSE b

Max(a, b) == IF a >= b THEN a ELSE b

\* Math.round of x tenths: the integers it can come to.
MathRound(tenths) ==
    LET k == tenths \div 10
        r == tenths % 10
    IN  IF r < 5 THEN {k}
        ELSE IF r > 5 THEN {k + 1}
        ELSE {k, k + 1}

\* evaluateCSPQuality, in tenths.
evaluateCSPQuality(cspValue) ==
    LET hasNonces == Includes(cspValue, "nonce-") \/ Includes(cspValue, "sha256-")
        hasUnsafeInline == Includes(cspValue, "'unsafe-inline'")
        score == 5
                 + (IF Includes(cspValue, "default-src") THEN 2 ELSE 0)
                 + (IF Includes(cspValue, "script-src") THEN 2 ELSE 0)
                 + (IF Includes(cspValue, "style-src") THEN 2 ELSE 0)
                 + (IF ~hasUnsafeInline THEN 3 ELSE 0)
                 + (IF hasNonces THEN 2 ELSE 0)
    IN  Min(10, score)

\* evaluateHSTSQuality, in tenths.
evaluateHSTSQuality(hstsValue) ==
    LET hasMaxAge == Includes(hstsValue, "max-age=")
        hasIncludeSubDomains == Includes(hstsValue, "includeSubDomains")
        hasPreload == Includes(hstsValue, "preload")
        score == 3
                 + (IF hasMaxAge THEN 3 ELSE 0)
                 + (IF hasIncludeSubDomains THEN 2 ELSE 0)
                 + (IF hasPreload THEN 2 ELSE 0)
    IN  Min(10, score)

\* evaluateHeaderQuality, in tenths.
evaluateHeaderQuality(headerName, value) ==
    CASE headerName = "content-security-policy" -> evaluateCSPQuality(value)
      [] headerName = "strict-transport-security" -> evaluateHSTSQuality(value)
      [] headerName = "x-frame-options" ->
            IF Includes(value, "DENY") \/ Includes(value, "SAMEORIGIN") THEN 10 ELSE 7
      [] OTHER -> IF value # "" THEN 10 ELSE 0

\* No context argument (context is undefined).
NoContext ==
    [type |-> "undefined", hasUserGeneratedContent |-> FALSE,
     handlesFinancialData |-> FALSE, hasLoginSystem |-> FALSE,
     allowsFileUploads |-> FALSE]

HasContext(context) == context.type # "undefined"

\* contextModifiers of calculateMissingHeaderPenalty, in tenths; -1 where a
\* table has no entry for the header (undefined).
StaticSiteModifier(headerName) ==
    CASE headerName = "content-security-policy" -> 3
      [] headerName = "referrer-policy" -> 5
      [] headerName = "permissions-policy" -> 4
      [] headerName = "x-xss-protection" -> 1
      [] OTHER -> -1

ApiOnlyModifier(headerName) ==
    CASE headerName = "content-security-policy" -> 0
      [] headerName = "x-frame-options" -> 0
      [] headerName = "referrer-policy" -> 2
      [] OTHER -> -1

BlogPortfolioModifier(headerName) ==
    CASE headerName = "content-security-policy" -> 4
      [] headerName = "x-frame-options" -> 3
      [] headerName = "referrer-policy" -> 11
      [] OTHER -> -1

\* { ...a, ...b }[headerName]
Spread(a, b) == IF b # -1 THEN b ELSE a

\* calculateMissingHeaderPenalty, in tenths.
calculateMissingHeaderPenalty(headerName, criticality, context) ==
    IF ~HasContext(context) THEN 10
    ELSE LET m0 == StaticSiteModifier(headerName)
             m1 == IF context.type \in {"api", "enterprise"}
                   THEN Spread(m0, ApiOnlyModifier(headerName))
                   ELSE m0
             m2 == IF context.type \in {"blog", "portfolio"}
                   THEN Spread(m1, BlogPortfolioModifier(headerName))
                   ELSE m1
         IN  IF m2 # -1 THEN m2 ELSE 10

\* The loop of evaluateHeadersRealistically after the first i entries of
\* HEADER_WEIGHTS: [presentPoints, missingPoints], in tenths of a point.
RECURSIVE HeaderPoints(_, _, _)
HeaderPoints(headers, context, i) ==
    IF i = 0 THEN [presentPoints |-> 0, missingPoints |-> 0]
    ELSE LET acc == HeaderPoints(headers, context, i - 1)
             config == HEADER_WEIGHTS[i]
             headerValue == headers[config.name]
         IN  IF headerValue # ""
             THEN [acc EXCEPT !.presentPoints =
                      @ + config.weight * evaluateHeaderQuality(config.name, headerValue)]
             ELSE [acc EXCEPT !.missingPoints =
                      @ + config.weight *
                          calculateMissingHeaderPenalty(config.name, config.criticality,
                                                        context)]

\* evaluateHeadersRealistically: the {present, missing, score} records it
\* can return.
evaluateHeadersRealistically(headers, context) ==
    LET points == HeaderPoints(headers, context, Len(HEADER_WEIGHTS))
    IN  { [present |-> p, missing |-> m, score |-> s] :
            p \in MathRound(points.presentPoints),
            m \in MathRound(points.missingPoints),
            s \in MathRound(points.presentPoints + points.missingPoints) }

\* The penalty without its per-severity and total caps.
evaluateVulnerabilitiesUncapped(vulns) ==
    -(  VULNERABILITY_PENALTIES.CRITICAL * vulns.critical
      + VULNERABILITY_PENALTIES.HIGH * vulns.high
      + VULNERABILITY_PENALTIES.MEDIUM * vulns.medium
      + VULNERABILITY_PENALTIES.LOW * vulns.low)

\* evaluateVulnerabilitiesRealistically
evaluateVulnerabilitiesRealistically(vulns) ==
    LET totalPenalty ==
            (IF vulns.critical > 0
             THEN VULNERABILITY_PENALTIES.CRITICAL * Min(vulns.critical, 3) ELSE 0)
          + (IF vulns.high > 0
             THEN VULNERABILITY_PENALTIES.HIGH * Min(vulns.high, 5) ELSE 0)
          + (IF vulns.medium > 0
             THEN VULNERABILITY_PENALTIES.MEDIUM * Min(vulns.medium, 8) ELSE 0)
          + (IF vulns.low > 0
             THEN VULNERABILITY_PENALTIES.LOW * Min(vulns.low, 10) ELSE 0)
    IN  -Min(totalPenalty, 30)

\* calculateContextualBonus
calculateContextualBonus(headers, vulnerabilities, context) ==
    LET totalVulns == vulnerabilities.critical + vulnerabilities.high
                      + vulnerabilities.medium + vulnerabilities.low
    IN    (IF Includes(headers["strict-transport-security"], "max-age") THEN 5 ELSE 0)
        + (IF totalVulns = 0 THEN 3 ELSE IF totalVulns <= 2 THEN 1 ELSE 0)
        + (IF /\ HasContext(context)
              /\ context.type \in {"blog", "portfolio"}
              /\ ~context.hasUserGeneratedContent
           THEN 2 ELSE 0)
        + (IF /\ HasContext(context)
              /\ ~context.handlesFinancialData
              /\ ~context.hasLoginSystem
              /\ ~context.allowsFileUploads
           THEN 3 ELSE 0)

\* calculateGrade
calculateGrade(score) ==
    IF score >= 95 THEN "A+"
    ELSE IF score >= 90 THEN "A"
    ELSE IF score >= 85 THEN "A-"
    ELSE IF score >= 80 THEN "B+"
    ELSE IF score >= 75 THEN "B"
    ELSE IF score >= 70 THEN "B-"
    ELSE IF score >= 65 THEN "C+"
    ELSE IF score >= 60 THEN "C"
    ELSE IF score >= 55 THEN "C-"
    ELSE IF score >= 50 THEN "D"
    ELSE "F"

\* calculateRiskLevel
calculateRiskLevel(score, vulnerabilities) ==
    LET hasCriticalVulns == vulnerabilities.critical > 0
    IN  IF score >= 85 /\ ~hasCriticalVulns /\ vulnerabilities.high <= 1 THEN "Bajo"
        ELSE IF score >= 70 /\ ~hasCriticalVulns THEN "Medio"
        ELSE IF score >= 50 \/ vulnerabilities.high > 2 THEN "Alto"
        ELSE "Critico"

\* The total without its upper limit.
TotalScoreUnclamped(baseline, headersScore, vulnScore, bonusScore) ==
    Max(0, baseline + headersScore + vulnScore + bonusScore)

\* Step 5 of calculateRealisticScore: the total within its limits.
TotalScore(baseline, headersScore, vulnScore, bonusScore) ==
    Max(0, Min(100, baseline + headersScore + vulnScore + bonusScore))

\* calculateRealisticScore: the SecurityScore records it can return (one,
\* but for a rounding tie in the header points).
calculateRealisticScore(headers, vulnerabilities, siteType, context) ==
    LET baseline == BaselineFor(siteType)
        vulnScore == evaluateVulnerabilitiesRealistically(vulnerabilities)
        bonusScore == calculateContextualBonus(headers, vulnerabilities, context)
    IN  { LET total == TotalScore(baseline, headersScore.score, vulnScore, bonusScore)
          IN  [overall |-> total,
               grade |-> calculateGrade(total),
               riskLevel |-> calculateRiskLevel(total, vulnerabilities),
               baseline |-> baseline,
               headers |-> headersScore,
               vulnScore |-> vulnScore,
               bonus |-> bonusScore,
               total |-> total] :
          headersScore \in evaluateHeadersRealistically(headers, context) }

(***************************************************************************)
(* robots.txt files the policy gate is tried on                            *)
(***************************************************************************)

\* Sections per file and rules per section.
MaxSections == 2
MaxRules == 1

Agents == {UserAgent, "*", "Googlebot"}

\* The directives a section may hold, in the order they are written.
Rules ==
    << [directive |-> "Disallow", path |-> "/"],
       [directive |-> "Disallow", path |-> "/admin"],
       [directive |-> "Allow", path |-> "/"] >>

RuleLists ==
    LET Picks == {ix \in UNION {[1..n -> 1..Len(Rules)] : n \in 0..MaxRules} :
                     \A i, j \in 1..Len(ix) : i < j => ix[i] < ix[j]}
    IN  {[i \in 1..Len(ix) |-> Rules[ix[i]]] : ix \in Picks}

SectionSet == [agent : Agents, rules : RuleLists]

\* Files: one section per agent at most.
RobotsFiles ==
    {f \in UNION {[1..n -> SectionSet] : n \in 1..MaxSections} :
        \A i, j \in 1..Len(f) : i # j => f[i].agent # f[j].agent}

\* How a file is written down: the letter case of the field names, a blank
\* line between sections, a line feed after the last line.
Styles == [case : {"canonical", "lower", "upper"}, blank : BOOLEAN, newline : BOOLEAN]

CanonicalStyle == [case |-> "canonical", blank |-> TRUE, newline |-> TRUE]

FieldName(name, style) ==
    CASE style.case = "lower" -> ToLowerCase(name)
      [] style.case = "upper" -> ToUpperCase(name)
      [] OTHER -> name

RECURSIVE RenderRules(_, _)
RenderRules(rules, style) ==
    IF rules = <<>> THEN <<>>
    ELSE <<FieldName(Head(rules).directive, style) \o ": " \o Head(rules).path>>
         \o RenderRules(Tail(rules), style)

RenderSection(section, style) ==
    <<FieldName("User-agent", style) \o ": " \o section.agent>>
    \o RenderRules(section.rules, style)

RECURSIVE RenderLines(_, _)
RenderLines(file, style) ==
    IF file = <<>> THEN <<>>
    ELSE RenderSection(Head(file), style)
         \o (IF style.blank /\ Tail(file) # <<>> THEN <<"">> ELSE <<>>)
         \o RenderLines(Tail(file), style)

RECURSIVE JoinLines(_)
JoinLines(lines) ==
    IF lines = <<>> THEN ""
    ELSE IF Tail(lines) = <<>> THEN Head(lines)
    ELSE Head(lines) \o "\n" \o JoinLines(Tail(lines))

RenderRobots(file, style) ==
    JoinLines(RenderLines(file, style)) \o (IF style.newline THEN "\n" ELSE "")

\* What the file says, read off its structure.
HasSection(file, agent) == \E i \in 1..Len(file) : file[i].agent = agent

SectionOf(file, agent) == file[CHOOSE i \in 1..Len(file) : file[i].agent = agent]

FullSiteDisallow(section) ==
    \E k \in 1..Len(section.rules) :
        section.rules[k] = [directive |-> "Disallow", path |-> "/"]

(***************************************************************************)
(* Policy gate: terms of service                                           *)
(***************************************************************************)

\* commonPaths of analyzeTermsOfService, in probing order.
commonPaths ==
    << "/terms", "/terms-of-service", "/tos", "/legal", "/privacy",
       "/privacy-policy", "/conditions", "/conditions-of-use" >>

\* restrictions.some(term => text.includes(term)) on the page's text.
TermsRestrict(html) ==
    LET text == ToLowerCase(html)
    IN  \E term \in {"scraping", "scrape", "crawl", "crawler", "no scraping",
                     "no automated access"} : Includes(text, term)

(***************************************************************************)
(* What the model's network serves                                         *)
(***************************************************************************)

\* s repeated n times.
RECURSIVE Repeat(_, _)
Repeat(s, n) ==
    IF n <= 0 THEN ""
    ELSE IF n = 1 THEN s
    ELSE Repeat(s, n \div 2) \o Repeat(s, n - n \div 2)

\* A URL of exactly n characters on a public host.
LongUrl(n) == "https://example.com/" \o Repeat("a", n - 20)

\* What the operator may type into the URL field.
Urls ==
    { "https://example.com",
      "http://example.com/shop?id=1&cat=2",
      LongUrl(SanitizeMaxLength + 1),
      LongUrl(MaxUrlLength),
      LongUrl(MaxUrlLength + 1),
      "https://example.com/?" \o Repeat("&", 500),
      "  https://example.com/?page=2  ",
      "",
      "example.com",
      "HTTPS://example.com",
      "https://",
      "ftp://example.com/file.txt",
      "file:///etc/passwd",
      "javascript:alert(1)",
      "javascript:eval(name)",
      "data:text/html,hello",
      "https://example.com/?q=<script>alert(1)</script>",
      "https://example.com/?month=1",
      "http://localhost:3000/",
      "http://127.0.0.1/admin",
      "http://10.0.0.5/",
      "http://192.168.1.1/",
      "http://172.16.0.1/" }

\* The robots.txt bodies the scanned sites serve.
ServedRobots ==
    { "User-agent: *\nDisallow: /\n",
      "User-agent: *\nAllow: /\n",
      "user-agent: scrapiibot/2.0\ndisallow: /\n",
      "" }

\* The pages the scanned sites serve at a policy path.
ServedTerms ==
    { "<html><body>Terms: no scraping or automated access.</body></html>",
      "<html><body>Welcome to our shop.</body></html>" }

\* Subdomains a fetched page links to (the code scans ten at most).
MaxSubdomains == 2

\* Math.min(subdomains.length, 10)
SubdomainCap == 10

\* What fetch() rejects with.
FetchErrorMessage == "Failed to fetch"

\* `${response.status}`
StatusText(status) ==
    CASE status = 200 -> "200" [] status = 403 -> "403"
      [] status = 404 -> "404" [] status = 500 -> "500"
      [] status = 429 -> "429" [] status = 502 -> "502"
      [] status = 503 -> "503" [] status = 504 -> "504"

\* Every way a request can end.
Responses(bodies) ==
    {Rejected} \cup {Resolved(st, "") : st \in Statuses \ {200}}
               \cup {Resolved(200, b) : b \in bodies}

(***************************************************************************)
(* State                                                                   *)
(***************************************************************************)

VARIABLES
    \* App state (useState)
    url,              \* the text of the URL field
    ethicalMode,
    loading,
    error,            \* "" is null
    currentResult,
    \* the running handleScrape
    pc,               \* where the scan stands
    rejectedBy,       \* the input check that rejected the scan, "" if none
    scrapingPolicy,   \* the scan's ScrapingPolicy, once the gate is reached
    robotsState,      \* validateRobotsTxt: "idle", "pending", then how its fetch ended
    robotsAllowed,
    termsIndex,       \* the commonPaths entry being probed, 0 before, 9 when done
    termsProhibited,  \* scrapingProhibited of analyzeTermsOfService
    termsChecked,
    termsFailures,    \* probes whose fetch was rejected
    subdomains,       \* how many subdomains the page links to
    subdomainResults,
    requests,         \* the requests the scan has issued, in order
    \* the policy gate on its own
    robotsFile, robotsStyle, robotsChecked, robotsTxtAllowed,
    \* the scorer on its own
    siteType, headers, vulnerabilities, context, score,
    calculated,       \* what the scorer has been asked for, "nothing" before
    \* the analyzers on their own
    sitePolicy,       \* the header policy of the site that answers
    responseHeaders,  \* the headers of its response
    securityHeaders,  \* what analyzeSecurityHeaders made of them
    analyzed,         \* which analyzer has run, "nothing" before
    page,             \* the page's HTML
    document,         \* the document parsed from it
    technologyRuns,   \* what each call of detectTechnologies returned
    vulnerableTechnologies,  \* what detectVulnerableTechnologies returned
    \* the analysis of a fetched page as a whole
    externalLinks,    \* links of the page to other domains
    imagesWithoutAlt,
    analyses,         \* what each analysis of the page produced
    \* the history and the scans that write to it
    queries,          \* the saved history, newest first
    scans             \* the calls of handleScrape

appVars == <<url, ethicalMode, loading, error, currentResult>>

scanVars == <<pc, rejectedBy, scrapingPolicy, robotsState, robotsAllowed, termsIndex,
              termsProhibited, termsChecked, termsFailures, subdomains,
              subdomainResults, requests>>

robotsVars == <<robotsFile, robotsStyle, robotsChecked, robotsTxtAllowed>>

scoreVars == <<siteType, headers, vulnerabilities, context, score, calculated>>

headerVars == <<sitePolicy, responseHeaders, securityHeaders>>

contentVars == <<page, document, technologyRuns, vulnerableTechnologies>>

reportVars == <<externalLinks, imagesWithoutAlt, analyses>>

historyVars == <<queries, scans>>

analysisVars == <<headerVars, contentVars, analyzed, reportVars, historyVars>>

vars == <<appVars, scanVars, robotsVars, scoreVars, analysisVars>>

\* currentResult === null
NoResult == [present |-> FALSE, url |-> "", subdomains |-> <<>>, prohibited |-> FALSE]

\* The ScrapingPolicy before the gate builds one.
NoPolicy ==
    [robotsTxtAllowed |-> TRUE, termsOfServiceRestricted |-> FALSE,
     scrapingProhibited |-> FALSE, termsChecked |-> FALSE]

\* The score before the scorer has run.
NoScore ==
    [overall |-> -1, grade |-> "", riskLevel |-> "", baseline |-> 0,
     headers |-> [present |-> 0, missing |-> 0, score |-> 0],
     vulnScore |-> 0, bonus |-> 0, total |-> -1]

NoHeaders == [h \in HeaderNames |-> ""]

NoVulnerabilities == [critical |-> 0, high |-> 0, medium |-> 0, low |-> 0]

AppIdle ==
    /\ url = ""
    /\ ethicalMode = TRUE
    /\ loading = FALSE
    /\ error = ""
    /\ currentResult = NoResult

ScanIdle ==
    /\ pc = "idle"
    /\ rejectedBy = ""
    /\ scrapingPolicy = NoPolicy
    /\ robotsState = "idle"
    /\ robotsAllowed = TRUE
    /\ termsIndex = 0
    /\ termsProhibited = FALSE
    /\ termsChecked = FALSE
    /\ termsFailures = 0
    /\ subdomains = 0
    /\ subdomainResults = <<>>
    /\ requests = <<>>

RobotsIdle ==
    /\ robotsFile = <<>>
    /\ robotsStyle = CanonicalStyle
    /\ robotsChecked = "no"
    /\ robotsTxtAllowed = TRUE

\* No site has answered.
NoSitePolicy == [hsts |-> <<>>, csp |-> <<>>, other |-> "none"]

HeadersIdle ==
    /\ sitePolicy = NoSitePolicy
    /\ responseHeaders = [n \in AnalyzedHeaders |-> ""]
    /\ securityHeaders = analyzeSecurityHeaders([n \in AnalyzedHeaders |-> ""])

\* A document without elements.
EmptyDocument == [matches |-> {}, scripts |-> {}, links |-> {}, generator |-> ""]

ContentIdle ==
    /\ page = ""
    /\ document = EmptyDocument
    /\ technologyRuns = <<>>
    /\ vulnerableTechnologies = <<>>

ReportIdle ==
    /\ externalLinks = 0
    /\ imagesWithoutAlt = 0
    /\ analyses = <<>>

HistoryIdle ==
    /\ queries = <<>>
    /\ scans = <<>>

AnalysisIdle ==
    /\ HeadersIdle
    /\ ContentIdle
    /\ ReportIdle
    /\ HistoryIdle
    /\ analyzed = "nothing"

ScoreIdle ==
    /\ siteType = "DEFAULT"
    /\ headers = NoHeaders
    /\ vulnerabilities = NoVulnerabilities
    /\ context = NoContext
    /\ score = NoScore
    /\ calculated = "nothing"

(***************************************************************************)
(* The scan: App and handleScrape                                          *)
(***************************************************************************)

Request(kind, target) == [kind |-> kind, target |-> target]

\* onChange of the URL field, before a scan is started.
SetUrl ==
    /\ pc = "idle"
    /\ \E u \in Urls : url' = u
    /\ UNCHANGED <<ethicalMode, loading, error, currentResult, scanVars,
                   robotsVars, scoreVars,
                   analysisVars>>

\* handleToggleEthicalMode, before a scan is started.
ToggleEthicalMode ==
    /\ pc = "idle"
    /\ ethicalMode' = ~ethicalMode
    /\ UNCHANGED <<url, loading, error, currentResult, scanVars, robotsVars, scoreVars,
                   analysisVars>>

\* handleScrape, up to its first return: an input check fails.
ScrapeRejected ==
    /\ pc = "idle"
    /\ InputCheck(url) # "ok"
    /\ pc' = "rejected"
    /\ rejectedBy' = InputCheck(url)
    /\ error' = CASE InputCheck(url) = "unsafe-input" -> "Entrada no segura detectada"
                  [] InputCheck(url) = "malicious" ->
                        "La entrada contiene contenido potencialmente malicioso."
                  [] InputCheck(url) = "invalid-url" -> "URL no valida"
                  [] OTHER -> "Por favor, ingrese una URL valida (ej. https://example.com)."
    /\ UNCHANGED <<url, ethicalMode, loading, currentResult, scrapingPolicy, robotsState,
                   robotsAllowed, termsIndex, termsProhibited, termsChecked, termsFailures,
                   subdomains, subdomainResults, requests, robotsVars, scoreVars,
                   analysisVars>>

\* The policy the gate builds from the two checks.
PolicyOf(robots, termsAllowed, checked) ==
    [robotsTxtAllowed |-> robots,
     termsOfServiceRestricted |-> ~termsAllowed,
     scrapingProhibited |-> ~robots \/ ~termsAllowed,
     termsChecked |-> checked]

\* handleScrape in ethical mode, up to await Promise.all: the input passes,
\* loading is set, validateRobotsTxt and analyzeTermsOfService each run to
\* their first fetch.
ScrapeStartEthical ==
    /\ pc = "idle"
    /\ InputCheck(url) = "ok"
    /\ ethicalMode
    /\ loading' = TRUE
    /\ error' = ""
    /\ currentResult' = NoResult
    /\ pc' = "policy"
    /\ robotsState' = "pending"
    /\ termsIndex' = 1
    /\ requests' = << Request("robots", "/robots.txt"), Request("terms", commonPaths[1]) >>
    /\ UNCHANGED <<url, ethicalMode, rejectedBy, scrapingPolicy, robotsAllowed,
                   termsProhibited, termsChecked, termsFailures, subdomains,
                   subdomainResults, robotsVars, scoreVars,
                   analysisVars>>

\* handleScrape with ethical mode off, up to the fetch of the page: no
\* policy request is made and the gate lets the scan through.
ScrapeStartUnchecked ==
    /\ pc = "idle"
    /\ InputCheck(url) = "ok"
    /\ ~ethicalMode
    /\ loading' = TRUE
    /\ error' = ""
    /\ currentResult' = NoResult
    /\ scrapingPolicy' = PolicyOf(TRUE, TRUE, FALSE)
    /\ pc' = "page"
    /\ requests' = << Request("page", url) >>
    /\ UNCHANGED <<url, ethicalMode, rejectedBy, robotsState, robotsAllowed, termsIndex,
                   termsProhibited, termsChecked, termsFailures, subdomains,
                   subdomainResults, robotsVars, scoreVars,
                   analysisVars>>

\* validateRobotsTxt after its fetch.
RobotsResponse ==
    /\ pc = "policy"
    /\ robotsState = "pending"
    /\ \E response \in Responses(ServedRobots) :
          /\ robotsAllowed' = validateRobotsTxt(response)
          /\ robotsState' = IF response.outcome = "reject" THEN "rejected"
                            ELSE IF ~ResponseOk(response) THEN "not-ok"
                            ELSE "read"
    /\ UNCHANGED <<appVars, pc, rejectedBy, scrapingPolicy, termsIndex, termsProhibited,
                   termsChecked, termsFailures, subdomains, subdomainResults, requests,
                   robotsVars, scoreVars,
                   analysisVars>>

\* analyzeTermsOfService leaves its loop.
TermsDone == Len(commonPaths) + 1

\* The loop of analyzeTermsOfService without its try/catch: a rejected fetch
\* reaches the catch block of handleScrape.
TermsResponseUncaught ==
    /\ pc = "policy"
    /\ termsIndex \in 1..Len(commonPaths)
    /\ error' = FetchErrorMessage
    /\ loading' = FALSE
    /\ pc' = "failed"
    /\ UNCHANGED <<url, ethicalMode, currentResult, rejectedBy, scrapingPolicy, robotsState,
                   robotsAllowed, termsIndex, termsProhibited, termsChecked, termsFailures,
                   subdomains, subdomainResults, requests, robotsVars, scoreVars,
                   analysisVars>>

\* The loop of analyzeTermsOfService without its break: a page with a
\* restriction term is noted and the next path is probed all the same.
TermsResponseProbingOn ==
    /\ pc = "policy"
    /\ termsIndex \in 1..Len(commonPaths)
    /\ \E response \in Responses(ServedTerms) :
          LET restricted == ResponseOk(response) /\ TermsRestrict(response.body)
              next == termsIndex + 1
          IN  /\ termsChecked' = (termsChecked \/ ResponseOk(response))
              /\ termsProhibited' = (termsProhibited \/ restricted)
              /\ termsFailures' = termsFailures
                                  + (IF response.outcome = "reject" THEN 1 ELSE 0)
              /\ termsIndex' = next
              /\ requests' = IF next <= Len(commonPaths)
                             THEN Append(requests, Request("terms", commonPaths[next]))
                             ELSE requests
    /\ UNCHANGED <<appVars, pc, rejectedBy, scrapingPolicy, robotsState, robotsAllowed,
                   subdomains, subdomainResults, robotsVars, scoreVars,
                   analysisVars>>

\* One turn of the loop of analyzeTermsOfService after its fetch: a rejected
\* fetch or a status outside 2xx moves on to the next path, a page with a
\* restriction term ends the loop.
TermsResponse ==
    /\ pc = "policy"
    /\ termsIndex \in 1..Len(commonPaths)
    /\ \E response \in Responses(ServedTerms) :
          LET restricted == ResponseOk(response) /\ TermsRestrict(response.body)
              next == IF restricted THEN TermsDone ELSE termsIndex + 1
          IN  /\ termsChecked' = (termsChecked \/ ResponseOk(response))
              /\ termsProhibited' = restricted
              /\ termsFailures' = termsFailures
                                  + (IF response.outcome = "reject" THEN 1 ELSE 0)
              /\ termsIndex' = next
              /\ requests' = IF next <= Len(commonPaths)
                             THEN Append(requests, Request("terms", commonPaths[next]))
                             ELSE requests
    /\ UNCHANGED <<appVars, pc, rejectedBy, scrapingPolicy, robotsState, robotsAllowed,
                   subdomains, subdomainResults, robotsVars, scoreVars,
                   analysisVars>>

PolicyChecksDone ==
    /\ robotsState \notin {"idle", "pending"}
    /\ termsIndex = TermsDone

\* handleScrape after Promise.all, when the policy forbids the scan: the
\* message is shown, loading is cleared and the handler returns.
GateProhibits ==
    /\ pc = "policy"
    /\ PolicyChecksDone
    /\ PolicyOf(robotsAllowed, ~termsProhibited, termsChecked).scrapingProhibited
    /\ scrapingPolicy' = PolicyOf(robotsAllowed, ~termsProhibited, termsChecked)
    /\ error' = IF ~robotsAllowed THEN "Scraping prohibido: robots.txt"
                ELSE "Scraping restringido: terminos de servicio"
    /\ loading' = FALSE
    /\ pc' = "prohibited"
    /\ UNCHANGED <<url, ethicalMode, currentResult, rejectedBy, robotsState, robotsAllowed,
                   termsIndex, termsProhibited, termsChecked, termsFailures, subdomains,
                   subdomainResults, requests, robotsVars, scoreVars,
                   analysisVars>>

\* A gate that lets every scan through to the fetch of the page.
GateAdmitsUnconditionally ==
    /\ pc = "policy"
    /\ PolicyChecksDone
    /\ scrapingPolicy' = PolicyOf(robotsAllowed, ~termsProhibited, termsChecked)
    /\ pc' = "page"
    /\ requests' = Append(requests, Request("page", url))
    /\ UNCHANGED <<appVars, rejectedBy, robotsState, robotsAllowed, termsIndex,
                   termsProhibited, termsChecked, termsFailures, subdomains,
                   subdomainResults, robotsVars, scoreVars,
                   analysisVars>>

\* handleScrape after Promise.all, when the policy allows the scan: up to
\* the fetch of the page.
GateAdmits ==
    /\ pc = "policy"
    /\ PolicyChecksDone
    /\ ~PolicyOf(robotsAllowed, ~termsProhibited, termsChecked).scrapingProhibited
    /\ scrapingPolicy' = PolicyOf(robotsAllowed, ~termsProhibited, termsChecked)
    /\ pc' = "page"
    /\ requests' = Append(requests, Request("page", url))
    /\ UNCHANGED <<appVars, rejectedBy, robotsState, robotsAllowed, termsIndex,
                   termsProhibited, termsChecked, termsFailures, subdomains,
                   subdomainResults, robotsVars, scoreVars,
                   analysisVars>>

\* subdomains[i - 1]: the i-th subdomain the page links to.
SubdomainUrl(i) == "https://sub" \o CharAt("123456789", i) \o ".example.com"

\* The request that follows the subdomain loop: getRobotsTxtContent.
AfterSubdomains(reqs) == Append(reqs, Request("robots-content", "/robots.txt"))

\* Further statuses the page's server or the proxy before it answers with
\* when it is busy or cannot reach the site.
BusyStatuses == {429, 502, 503, 504}

\* The fetch of the page fails or answers outside 2xx: the catch block
\* shows the message and finally clears loading.
PageFails ==
    /\ pc = "page"
    /\ \E response \in Responses({}) \cup {Resolved(st, "") : st \in BusyStatuses} :
          error' = IF response.outcome = "reject" THEN FetchErrorMessage
                   ELSE "Error al obtener la URL. Estado: " \o StatusText(response.status)
    /\ loading' = FALSE
    /\ pc' = "failed"
    /\ UNCHANGED <<url, ethicalMode, currentResult, rejectedBy, scrapingPolicy, robotsState,
                   robotsAllowed, termsIndex, termsProhibited, termsChecked, termsFailures,
                   subdomains, subdomainResults, requests, robotsVars, scoreVars,
                   analysisVars>>

\* The page arrives: its links name n subdomains, and the loop over them
\* starts with its first fetch (or, with none, getRobotsTxtContent starts).
PageArrives ==
    /\ pc = "page"
    /\ \E n \in 0..MaxSubdomains :
          /\ subdomains' = Min(n, SubdomainCap)
          /\ IF Min(n, SubdomainCap) > 0
             THEN /\ pc' = "subdomains"
                  /\ requests' = Append(requests, Request("subdomain", SubdomainUrl(1)))
             ELSE /\ pc' = "robots-content"
                  /\ requests' = AfterSubdomains(requests)
    /\ UNCHANGED <<appVars, rejectedBy, scrapingPolicy, robotsState, robotsAllowed,
                   termsIndex, termsProhibited, termsChecked, termsFailures,
                   subdomainResults, robotsVars, scoreVars,
                   analysisVars>>

\* scrapeSubdomain after its fetch: SubdomainData's status and error.
scrapeSubdomain(response) ==
    IF response.outcome = "reject"
    THEN [status |-> "error", error |-> FetchErrorMessage]
    ELSE IF ~ResponseOk(response)
    THEN [status |-> "error", error |-> "HTTP " \o StatusText(response.status)]
    ELSE [status |-> "success", error |-> ""]

\* A subdomain loop that gives up the scan at the first subdomain that
\* cannot be read.
SubdomainResponseAborting ==
    /\ pc = "subdomains"
    /\ \E response \in Responses({"<html></html>"}) :
          LET result == scrapeSubdomain(response)
          IN  IF result.status = "error"
              THEN /\ error' = result.error
                   /\ loading' = FALSE
                   /\ pc' = "failed"
                   /\ UNCHANGED <<subdomainResults, requests>>
              ELSE /\ subdomainResults' = Append(subdomainResults, result)
                   /\ IF Len(subdomainResults) + 1 < subdomains
                      THEN /\ pc' = "subdomains"
                           /\ requests' = Append(requests,
                                                 Request("subdomain",
                                                         SubdomainUrl(Len(subdomainResults) + 2)))
                      ELSE /\ pc' = "robots-content"
                           /\ requests' = AfterSubdomains(requests)
                   /\ UNCHANGED <<error, loading>>
    /\ UNCHANGED <<url, ethicalMode, currentResult, rejectedBy, scrapingPolicy, robotsState,
                   robotsAllowed, termsIndex, termsProhibited, termsChecked, termsFailures,
                   subdomains, robotsVars, scoreVars, analysisVars>>

\* One turn of the subdomain loop of handleScrape.
SubdomainResponse ==
    /\ pc = "subdomains"
    /\ \E response \in Responses({"<html></html>"}) :
          subdomainResults' = Append(subdomainResults, scrapeSubdomain(response))
    /\ IF Len(subdomainResults) + 1 < subdomains
       THEN /\ pc' = "subdomains"
            /\ requests' = Append(requests,
                                  Request("subdomain",
                                          SubdomainUrl(Len(subdomainResults) + 2)))
       ELSE /\ pc' = "robots-content"
            /\ requests' = AfterSubdomains(requests)
    /\ UNCHANGED <<appVars, rejectedBy, scrapingPolicy, robotsState, robotsAllowed,
                   termsIndex, termsProhibited, termsChecked, termsFailures, subdomains,
                   robotsVars, scoreVars,
                   analysisVars>>

\* getRobotsTxtContent answers (it never throws) and handleScrape runs to
\* its end: the analyzers, setCurrentResult, the history, finally.
ScrapeCompletes ==
    /\ pc = "robots-content"
    /\ currentResult' = [present |-> TRUE, url |-> url, subdomains |-> subdomainResults,
                         prohibited |-> scrapingPolicy.scrapingProhibited]
    /\ loading' = FALSE
    /\ pc' = "done"
    /\ UNCHANGED <<url, ethicalMode, error, rejectedBy, scrapingPolicy, robotsState,
                   robotsAllowed, termsIndex, termsProhibited, termsChecked, termsFailures,
                   subdomains, subdomainResults, requests, robotsVars, scoreVars,
                   analysisVars>>

\* What the catch block of handleScrape shows for an exception: the message
\* of an Error, the fixed text for anything else that was thrown.
ThrownMessages == {"Cannot read properties of null", "Ocurrio un error."}

\* A catch block without the finally block after it: the message is shown
\* and loading stays as it is.
AnalysisThrowsWithoutFinally ==
    /\ pc = "robots-content"
    /\ \E message \in ThrownMessages : error' = message
    /\ pc' = "threw"
    /\ UNCHANGED <<url, ethicalMode, loading, currentResult, rejectedBy, scrapingPolicy,
                   robotsState, robotsAllowed, termsIndex, termsProhibited, termsChecked,
                   termsFailures, subdomains, subdomainResults, requests, robotsVars,
                   scoreVars, analysisVars>>

\* An exception in one of the analyzers that run once the page and its
\* subdomains are in: the catch block shows the message and finally clears
\* loading.
AnalysisThrows ==
    /\ pc = "robots-content"
    /\ \E message \in ThrownMessages : error' = message
    /\ loading' = FALSE
    /\ pc' = "threw"
    /\ UNCHANGED <<url, ethicalMode, currentResult, rejectedBy, scrapingPolicy,
                   robotsState, robotsAllowed, termsIndex, termsProhibited, termsChecked,
                   termsFailures, subdomains, subdomainResults, requests, robotsVars,
                   scoreVars, analysisVars>>

\* The status code after 'http ' in the message, "" when /http (\d+)/ does
\* not match.
HttpCodeIn(errorLower) ==
    LET starts == {i \in 1..Len(errorLower) :
                      /\ StartsAt(errorLower, i, "http ")
                      /\ IsDigit(CharAt(errorLower, i + 5))}
    IN  IF starts = {} THEN ""
        ELSE LET first == CHOOSE i \in starts : \A j \in starts : i <= j
             IN  SubSeq(errorLower, first + 5, RunEnd(errorLower, first + 5, "\\d") - 1)

\* httpCodes of getErrorExplanation.
httpCodes(code) ==
    CASE code = "400" -> "Error 400 - Petición malformada"
      [] code = "401" -> "Error 401 - No autorizado"
      [] code = "405" -> "Error 405 - Método no permitido"
      [] code = "408" -> "Error 408 - Timeout de petición"
      [] code = "429" -> "Error 429 - Demasiadas peticiones"
      [] code = "502" -> "Error 502 - Puerta de enlace inválida"
      [] code = "503" -> "Error 503 - Servicio no disponible"
      [] code = "504" -> "Error 504 - Timeout de puerta de enlace"
      [] OTHER -> "Error HTTP " \o code \o " - Código de estado HTTP no estándar"

\* What renderTabContent shows for an error message.
getErrorExplanation(message) ==
    LET errorLower == ToLowerCase(message)
    IN  IF Includes(errorLower, "404")
        THEN "Error 404 - Recurso no encontrado. La URL no existe o ha sido movida."
        ELSE IF Includes(errorLower, "403")
        THEN "Error 403 - Acceso prohibido. El servidor deniega el acceso a la página."
        ELSE IF Includes(errorLower, "500")
        THEN "Error 500 - Error interno del servidor. Problemas en el servidor web."
        ELSE IF Includes(errorLower, "502")
        THEN "Error 502 - Puerta de enlace inválida. Problema de conectividad."
        ELSE IF Includes(errorLower, "503")
        THEN "Error 503 - Servicio no disponible. El servidor está temporalmente sobrecargado."
        ELSE IF Includes(errorLower, "timeout")
        THEN "Timeout - La conexión tardó demasiado tiempo. El servidor puede estar sobrecargado."
        ELSE IF Includes(errorLower, "refused")
        THEN "Conexión rechazada - El servidor está rechazando las conexiones."
        ELSE IF Includes(errorLower, "network")
        THEN "Error de red - Problemas de conectividad o DNS."
        ELSE IF Includes(errorLower, "cors")
        THEN "Error CORS - El servidor bloquea las peticiones desde este origen."
        ELSE IF Includes(errorLower, "ssl") \/ Includes(errorLower, "certificate")
        THEN "Error SSL - Problemas con el certificado de seguridad."
        ELSE IF Includes(errorLower, "robots.txt")
        THEN "Scraping prohibido - El archivo robots.txt del sitio no permite el acceso automatizado."
        ELSE IF Includes(errorLower, "términos de servicio")
        THEN "Scraping restringido - Los términos de servicio del sitio web prohíben el scraping automatizado."
        ELSE IF Includes(errorLower, "http") /\ HttpCodeIn(errorLower) # ""
        THEN httpCodes(HttpCodeIn(errorLower))
        ELSE "Error no identificado: " \o message

\* A behaviour follows one scan: the URL field and the ethical-mode switch
\* are set, handleScrape is called once and runs until it returns.
Init == AppIdle /\ ScanIdle /\ RobotsIdle /\ ScoreIdle /\ AnalysisIdle

Next ==
    \/ SetUrl
    \/ ToggleEthicalMode
    \/ ScrapeRejected
    \/ ScrapeStartEthical
    \/ ScrapeStartUnchecked
    \/ RobotsResponse
    \/ TermsResponse
    \/ GateProhibits
    \/ GateAdmits
    \/ PageFails
    \/ PageArrives
    \/ SubdomainResponse
    \/ ScrapeCompletes
    \/ AnalysisThrows

Spec == Init /\ [][Next]_vars

\* The scan when every request it waits for is answered or rejected in the
\* end and every continuation that can run does run; what the user does
\* (typing, toggling, starting a scan) is under no such obligation.
FairSpec ==
    /\ Spec
    /\ WF_vars(RobotsResponse)
    /\ WF_vars(TermsResponse)
    /\ WF_vars(GateProhibits \/ GateAdmits)
    /\ WF_vars(PageFails \/ PageArrives)
    /\ WF_vars(SubdomainResponse)
    /\ WF_vars(ScrapeCompletes \/ AnalysisThrows)

(***************************************************************************)
(* The policy gate on its own: validateRobotsTxt on every file             *)
(***************************************************************************)

InitRobots ==
    /\ AppIdle /\ ScanIdle /\ ScoreIdle /\ AnalysisIdle
    /\ robotsFile \in RobotsFiles
    /\ robotsStyle \in Styles
    /\ robotsChecked = "no"
    /\ robotsTxtAllowed = TRUE

\* validateRobotsTxt on a server that serves the file.
RobotsServed ==
    /\ robotsChecked = "no"
    /\ robotsTxtAllowed' =
           validateRobotsTxt(Resolved(200, RenderRobots(robotsFile, robotsStyle)))
    /\ robotsChecked' = "served"
    /\ UNCHANGED <<robotsFile, robotsStyle, appVars, scanVars, scoreVars,
                   analysisVars>>

\* validateRobotsTxt when the file cannot be had: a status outside 2xx.
RobotsMissing ==
    /\ robotsChecked = "no"
    /\ \E status \in Statuses \ {200} :
           robotsTxtAllowed' = validateRobotsTxt(Resolved(status, ""))
    /\ robotsChecked' = "missing"
    /\ UNCHANGED <<robotsFile, robotsStyle, appVars, scanVars, scoreVars,
                   analysisVars>>

\* validateRobotsTxt when the request fails.
RobotsFailed ==
    /\ robotsChecked = "no"
    /\ robotsTxtAllowed' = validateRobotsTxt(Rejected)
    /\ robotsChecked' = "failed"
    /\ UNCHANGED <<robotsFile, robotsStyle, appVars, scanVars, scoreVars,
                   analysisVars>>

NextRobots == RobotsServed \/ RobotsMissing \/ RobotsFailed

SpecRobots == InitRobots /\ [][NextRobots]_vars

(***************************************************************************)
(* The scorer on its own: calculateRealisticScore on every input           *)
(***************************************************************************)

\* Known site types of every baseline band, and one that is not known.
SiteTypes ==
    {"ecommerce-standard", "financial", "blog-influencer", "DEFAULT", "forum"}

\* The values a scanned site sends for a tracked header; "" is no header.
HeaderValues(headerName) ==
    CASE headerName = "content-security-policy" ->
            {"", "default-src 'self'; script-src 'self'",
             "default-src 'self'; script-src 'nonce-r4nd0m' 'unsafe-inline'; style-src 'self'",
             "default-src *; script-src * 'unsafe-inline'"}
      [] headerName = "strict-transport-security" ->
            {"", "max-age=31536000", "max-age=63072000; includeSubDomains; preload",
             "max-age=3600"}
      [] headerName = "x-frame-options" -> {"", "DENY", "ALLOW-FROM https://example.com"}
      [] headerName = "x-content-type-options" -> {"", "nosniff"}
      [] headerName = "referrer-policy" -> {"", "no-referrer"}
      [] headerName = "permissions-policy" -> {"", "geolocation=()"}
      [] headerName = "x-xss-protection" -> {"", "1; mode=block"}

HeaderSets ==
    { [n \in HeaderNames |->
          CASE n = "content-security-policy" -> csp
            [] n = "strict-transport-security" -> hsts
            [] n = "x-frame-options" -> xfo
            [] n = "x-content-type-options" -> xcto
            [] n = "referrer-policy" -> rp
            [] n = "permissions-policy" -> pp
            [] n = "x-xss-protection" -> xxp] :
        csp \in HeaderValues("content-security-policy"),
        hsts \in HeaderValues("strict-transport-security"),
        xfo \in HeaderValues("x-frame-options"),
        xcto \in HeaderValues("x-content-type-options"),
        rp \in HeaderValues("referrer-policy"),
        pp \in HeaderValues("permissions-policy"),
        xxp \in HeaderValues("x-xss-protection") }

SiteContextOf(type, risky) ==
    [type |-> type, hasUserGeneratedContent |-> risky, handlesFinancialData |-> risky,
     hasLoginSystem |-> risky, allowsFileUploads |-> risky]

Contexts ==
    {NoContext, SiteContextOf("static", FALSE), SiteContextOf("blog", FALSE),
     SiteContextOf("api", TRUE), SiteContextOf("ecommerce", TRUE)}

VulnerabilityData(critical, high, medium, low) ==
    [critical |-> critical, high |-> high, medium |-> medium, low |-> low]

VulnerabilityProfiles ==
    {VulnerabilityData(0, 0, 0, 0), VulnerabilityData(0, 0, 1, 0),
     VulnerabilityData(0, 0, 0, 2), VulnerabilityData(1, 3, 0, 0),
     VulnerabilityData(10, 10, 0, 0)}

InitScore ==
    /\ AppIdle /\ ScanIdle /\ RobotsIdle /\ AnalysisIdle
    /\ siteType \in SiteTypes
    /\ headers \in HeaderSets
    /\ vulnerabilities \in VulnerabilityProfiles
    /\ context \in Contexts
    /\ score = NoScore
    /\ calculated = "nothing"

\* calculateRealisticScore(headers, vulnerabilities, siteType, context)
CalculateScore ==
    /\ calculated = "nothing"
    /\ score' \in calculateRealisticScore(headers, vulnerabilities, siteType, context)
    /\ calculated' = "score"
    /\ UNCHANGED <<siteType, headers, vulnerabilities, context, appVars, scanVars,
                   robotsVars,
                   analysisVars>>

\* The site types BaselineScorer holds a BaselineConfig for (SiteType).
BaselineSiteTypes == KnownSiteTypes \ {"DEFAULT"}

\* BASELINES[siteType].baseScore of BaselineScorer.
BaseScore(type) ==
    CASE type = "ecommerce-standard" -> 75
      [] type = "ecommerce-premium" -> 85
      [] type = "enterprise-smb" -> 70
      [] type = "enterprise-corporate" -> 80
      [] type = "portfolio-professional" -> 65
      [] type = "saas-platform" -> 78
      [] type = "government" -> 90
      [] type = "financial" -> 95
      [] type = "healthcare" -> 85
      [] type = "education" -> 75
      [] type = "media-publisher" -> 70
      [] type = "blog-influencer" -> 60
      [] type = "landing-page-conversion" -> 65

\* BaselineScorer.analyzeSite(siteType, headers, vulnerabilities), as far as
\* its lookup: an unknown site type throws, a known one gives an analysis
\* whose baselineScore is the type's baseScore.
AnalyzeSite ==
    /\ calculated = "nothing"
    /\ IF siteType \in BaselineSiteTypes
       THEN /\ score' = [score EXCEPT !.baseline = BaseScore(siteType)]
            /\ calculated' = "analysis"
       ELSE /\ score' = score
            /\ calculated' = "error"
    /\ UNCHANGED <<siteType, headers, vulnerabilities, context, appVars, scanVars,
                   robotsVars,
                   analysisVars>>

\* BaselineScorer.getBaselineForSite(siteType): BASELINES[siteType], which is
\* undefined (baseline -1 here) for an unknown site type.
GetBaselineForSite ==
    /\ calculated = "nothing"
    /\ score' = [score EXCEPT !.baseline = IF siteType \in BaselineSiteTypes
                                           THEN BaseScore(siteType) ELSE -1]
    /\ calculated' = "baseline"
    /\ UNCHANGED <<siteType, headers, vulnerabilities, context, appVars, scanVars,
                   robotsVars,
                   analysisVars>>

NextScore == CalculateScore \/ AnalyzeSite \/ GetBaselineForSite

SpecScore == InitScore /\ [][NextScore]_vars

(***************************************************************************)
(* The vulnerability penalty on its own                                    *)
(***************************************************************************)

\* Findings counted per severity.
MaxFindings == 10

Severities == {"critical", "high", "medium", "low"}

InitPenalty ==
    /\ AppIdle /\ ScanIdle /\ RobotsIdle /\ AnalysisIdle
    /\ siteType = "DEFAULT"
    /\ headers = NoHeaders
    /\ vulnerabilities \in [Severities -> 0..MaxFindings]
    /\ context = NoContext
    /\ score = NoScore
    /\ calculated = "nothing"

\* evaluateVulnerabilitiesRealistically(vulnerabilities)
EvaluateVulnerabilities ==
    /\ calculated = "nothing"
    /\ score' = [score EXCEPT
                    !.vulnScore = evaluateVulnerabilitiesRealistically(vulnerabilities)]
    /\ calculated' = "penalty"
    /\ UNCHANGED <<siteType, headers, vulnerabilities, context, appVars, scanVars,
                   robotsVars,
                   analysisVars>>

\* typicalVulnerabilities of the entries of BASELINES.
TypicalCounts == {0, 1, 2}

\* BaselineScorer.calculateVulnerabilityPenalty(actualVulns, typicalCount)
calculateVulnerabilityPenalty(actualVulns, typicalCount) ==
    LET totalVulns == actualVulns.critical + actualVulns.high
                      + actualVulns.medium + actualVulns.low
        extraVulns == Max(0, totalVulns - typicalCount)
        penalty == 0 - 15 * actualVulns.critical - 8 * actualVulns.high
                     - 3 * actualVulns.medium - 1 * actualVulns.low
    IN  IF extraVulns = 0 THEN 0 ELSE Min(penalty, -20)

\* vulnPenalty of BaselineScorer.analyzeSite for a site type with some
\* typical count.
CalculateVulnerabilityPenalty ==
    /\ calculated = "nothing"
    /\ \E typicalCount \in TypicalCounts :
          score' = [score EXCEPT
                       !.vulnScore = calculateVulnerabilityPenalty(vulnerabilities,
                                                                   typicalCount)]
    /\ calculated' = "baseline-penalty"
    /\ UNCHANGED <<siteType, headers, vulnerabilities, context, appVars, scanVars,
                   robotsVars,
                   analysisVars>>

NextPenalty == EvaluateVulnerabilities \/ CalculateVulnerabilityPenalty

SpecPenalty == InitPenalty /\ [][NextPenalty]_vars

(***************************************************************************)
(* detectTechnologies                                                      *)
(***************************************************************************)

\* The signatures of the technologies, in the order they are tried: the
\* texts looked for in the HTML, the selectors looked for in the document,
\* and the texts looked for in script sources, link targets and the
\* generator meta tag.
technologySignatures ==
    <<[name |-> "React", html |-> {"react"}, selectors |-> {"[data-reactroot], [data-react]"},
       scripts |-> {"react"}, links |-> {}, generator |-> {}],
      [name |-> "Vue.js", html |-> {"vue"}, selectors |-> {"#app[data-v-app]"},
       scripts |-> {"vue"}, links |-> {}, generator |-> {}],
      [name |-> "Angular", html |-> {"angular", "ng-app"}, selectors |-> {},
       scripts |-> {"angular"}, links |-> {}, generator |-> {}],
      [name |-> "Svelte", html |-> {"svelte"}, selectors |-> {"[data-svelte]"},
       scripts |-> {"svelte"}, links |-> {}, generator |-> {}],
      [name |-> "Ember.js", html |-> {"ember"}, selectors |-> {},
       scripts |-> {"ember"}, links |-> {}, generator |-> {}],
      [name |-> "Backbone.js", html |-> {"backbone"}, selectors |-> {},
       scripts |-> {"backbone"}, links |-> {}, generator |-> {}],
      [name |-> "jQuery", html |-> {"jquery"}, selectors |-> {},
       scripts |-> {}, links |-> {}, generator |-> {}],
      [name |-> "Bootstrap", html |-> {"bootstrap"}, selectors |-> {".container-fluid, .container"},
       scripts |-> {}, links |-> {"bootstrap"}, generator |-> {}],
      [name |-> "Tailwind CSS", html |-> {"tailwind"}, selectors |-> {"[class*=\"tw-\"]"},
       scripts |-> {}, links |-> {}, generator |-> {}],
      [name |-> "Bulma", html |-> {"bulma"}, selectors |-> {".is-primary"},
       scripts |-> {}, links |-> {}, generator |-> {}],
      [name |-> "Foundation", html |-> {"foundation"}, selectors |-> {"[data-sticky]"},
       scripts |-> {}, links |-> {}, generator |-> {}],
      [name |-> "Semantic UI", html |-> {"semantic-ui"}, selectors |-> {".ui.segment"},
       scripts |-> {}, links |-> {}, generator |-> {}],
      [name |-> "Next.js", html |-> {"next"}, selectors |-> {"#__next"},
       scripts |-> {}, links |-> {}, generator |-> {}],
      [name |-> "Nuxt.js", html |-> {"nuxt"}, selectors |-> {"[data-n-head]"},
       scripts |-> {}, links |-> {}, generator |-> {}],
      [name |-> "Gatsby", html |-> {"gatsby"}, selectors |-> {"[data-gatsby]"},
       scripts |-> {}, links |-> {}, generator |-> {}],
      [name |-> "Vite", html |-> {"vite"}, selectors |-> {"[data-vite-plugin]"},
       scripts |-> {}, links |-> {}, generator |-> {}],
      [name |-> "Webpack", html |-> {"webpack"}, selectors |-> {},
       scripts |-> {"webpack"}, links |-> {}, generator |-> {}],
      [name |-> "Rollup", html |-> {"rollup"}, selectors |-> {},
       scripts |-> {"rollup"}, links |-> {}, generator |-> {}],
      [name |-> "WordPress", html |-> {"wp-content", "wordpress"}, selectors |-> {},
       scripts |-> {}, links |-> {}, generator |-> {"WordPress"}],
      [name |-> "Shopify", html |-> {"shopify"}, selectors |-> {},
       scripts |-> {}, links |-> {}, generator |-> {"Shopify"}],
      [name |-> "Drupal", html |-> {"drupal"}, selectors |-> {},
       scripts |-> {}, links |-> {}, generator |-> {"Drupal"}],
      [name |-> "Joomla", html |-> {"joomla"}, selectors |-> {},
       scripts |-> {}, links |-> {}, generator |-> {"Joomla"}],
      [name |-> "Magento", html |-> {"magento"}, selectors |-> {},
       scripts |-> {}, links |-> {}, generator |-> {"Magento"}],
      [name |-> "Docusaurus", html |-> {"docusaurus", "dokuwiki"}, selectors |-> {},
       scripts |-> {}, links |-> {}, generator |-> {}],
      [name |-> "Notion", html |-> {"notion", "notion.so"}, selectors |-> {},
       scripts |-> {}, links |-> {}, generator |-> {}],
      [name |-> "Wix", html |-> {"wix", "wixstatic"}, selectors |-> {},
       scripts |-> {}, links |-> {}, generator |-> {}],
      [name |-> "Squarespace", html |-> {"squarespace", "squarespace.com"}, selectors |-> {},
       scripts |-> {}, links |-> {}, generator |-> {}],
      [name |-> "PHP", html |-> {"php", ".php"}, selectors |-> {},
       scripts |-> {}, links |-> {}, generator |-> {"php"}],
      [name |-> "ASP.NET", html |-> {"asp.net", ".aspx"}, selectors |-> {},
       scripts |-> {}, links |-> {}, generator |-> {"asp.net"}],
      [name |-> "Django", html |-> {"django", "csrfmiddlewaretoken"}, selectors |-> {},
       scripts |-> {}, links |-> {}, generator |-> {}],
      [name |-> "Flask", html |-> {"flask", "flask"}, selectors |-> {},
       scripts |-> {}, links |-> {}, generator |-> {}],
      [name |-> "Ruby on Rails", html |-> {"rails", "ruby on rails", "csrf-token"}, selectors |-> {},
       scripts |-> {}, links |-> {}, generator |-> {}],
      [name |-> "Node.js/Express", html |-> {"express", "node.js", "nodejs"}, selectors |-> {},
       scripts |-> {}, links |-> {}, generator |-> {}],
      [name |-> "Laravel", html |-> {"laravel", "laravel"}, selectors |-> {},
       scripts |-> {}, links |-> {}, generator |-> {}],
      [name |-> "Spring", html |-> {"spring", "spring boot"}, selectors |-> {},
       scripts |-> {}, links |-> {}, generator |-> {}],
      [name |-> "FastAPI", html |-> {"fastapi", "swagger-ui"}, selectors |-> {},
       scripts |-> {}, links |-> {}, generator |-> {}],
      [name |-> "MongoDB", html |-> {"mongodb"}, selectors |-> {},
       scripts |-> {"mongodb"}, links |-> {}, generator |-> {}],
      [name |-> "Firebase", html |-> {"firebase", "google-analytics"}, selectors |-> {},
       scripts |-> {}, links |-> {}, generator |-> {}],
      [name |-> "Supabase", html |-> {"supabase", "supabase"}, selectors |-> {},
       scripts |-> {}, links |-> {}, generator |-> {}],
      [name |-> "Animate.css", html |-> {"animate.css", "aos"}, selectors |-> {},
       scripts |-> {}, links |-> {"animate"}, generator |-> {}],
      [name |-> "Slider/Carousel", html |-> {"swiper", "slick"}, selectors |-> {},
       scripts |-> {}, links |-> {}, generator |-> {}],
      [name |-> "Chart.js", html |-> {"chart.js"}, selectors |-> {},
       scripts |-> {"chart"}, links |-> {}, generator |-> {}],
      [name |-> "D3.js", html |-> {"d3"}, selectors |-> {},
       scripts |-> {"d3"}, links |-> {}, generator |-> {}],
      [name |-> "Google Analytics", html |-> {"google-analytics", "gtag"}, selectors |-> {},
       scripts |-> {}, links |-> {}, generator |-> {}],
      [name |-> "Facebook Pixel", html |-> {"facebook", "fb-"}, selectors |-> {},
       scripts |-> {}, links |-> {}, generator |-> {}],
      [name |-> "HubSpot", html |-> {"hubspot", "hs-"}, selectors |-> {},
       scripts |-> {}, links |-> {}, generator |-> {}],
      [name |-> "Mailchimp", html |-> {"mailchimp", "mc-"}, selectors |-> {},
       scripts |-> {}, links |-> {}, generator |-> {}],
      [name |-> "Stripe", html |-> {"stripe", "stripe"}, selectors |-> {},
       scripts |-> {}, links |-> {}, generator |-> {}],
      [name |-> "PayPal", html |-> {"paypal", "paypal"}, selectors |-> {},
       scripts |-> {}, links |-> {}, generator |-> {}],
      [name |-> "TypeScript", html |-> {"types"}, selectors |-> {},
       scripts |-> {"types"}, links |-> {}, generator |-> {}],
      [name |-> "SASS/SCSS", html |-> {"sass", "scss"}, selectors |-> {},
       scripts |-> {}, links |-> {"sass", "scss"}, generator |-> {}],
      [name |-> "LESS", html |-> {"less"}, selectors |-> {},
       scripts |-> {}, links |-> {"less"}, generator |-> {}],
      [name |-> "PostCSS", html |-> {"postcss"}, selectors |-> {},
       scripts |-> {}, links |-> {"postcss"}, generator |-> {}]>>

\* getCurrentVersions: the current version of a technology.
getCurrentVersions ==
    <<<<"React", "18.2.0">>,
      <<"Vue.js", "3.3.0">>,
      <<"Angular", "17.1.0">>,
      <<"Svelte", "4.2.0">>,
      <<"Ember.js", "5.0.0">>,
      <<"Backbone.js", "1.4.1">>,
      <<"jQuery", "3.7.1">>,
      <<"Bootstrap", "5.3.0">>,
      <<"Tailwind CSS", "3.4.0">>,
      <<"Bulma", "0.9.4">>,
      <<"Foundation", "6.8.1">>,
      <<"Semantic UI", "2.5.0">>,
      <<"Next.js", "14.1.0">>,
      <<"Nuxt.js", "3.8.0">>,
      <<"Gatsby", "5.12.0">>,
      <<"Vite", "5.1.0">>,
      <<"Webpack", "5.89.0">>,
      <<"Rollup", "4.9.0">>,
      <<"WordPress", "6.4.0">>,
      <<"Shopify", "2024-01">>,
      <<"Drupal", "10.3.0">>,
      <<"Joomla", "5.0.0">>,
      <<"Magento", "2.4.7">>,
      <<"PHP", "8.3.0">>,
      <<"ASP.NET", "8.0.0">>,
      <<"Django", "4.2.7">>,
      <<"Flask", "3.0.0">>,
      <<"Ruby on Rails", "7.1.0">>,
      <<"Node.js/Express", "21.5.0">>,
      <<"Laravel", "11.0.0">>,
      <<"Spring", "3.2.0">>,
      <<"FastAPI", "0.109.0">>,
      <<"MongoDB", "7.0.0">>,
      <<"Firebase", "10.7.0">>,
      <<"Supabase", "2.37.0">>,
      <<"TypeScript", "5.3.0">>,
      <<"SASS/SCSS", "1.69.0">>,
      <<"LESS", "4.2.0">>,
      <<"PostCSS", "8.4.0">>,
      <<"Chart.js", "4.4.0">>,
      <<"D3.js", "7.8.0">>>>

CurrentVersionOf(name) ==
    IF \E i \in 1..Len(getCurrentVersions) : getCurrentVersions[i][1] = name
    THEN getCurrentVersions[CHOOSE i \in 1..Len(getCurrentVersions) :
                                getCurrentVersions[i][1] = name][2]
    ELSE ""

\* The text at i that \d+\.\d+\.\d+ (parts = 3), \d+\.\d+ (parts = 2) or
\* \d+\.\d+(?:\.\d+)? (parts = 0) matches, "" when it does not match there.
VersionAt(s, i, parts) ==
    LET a == RunEnd(s, i, "\\d")
        b == RunEnd(s, a + 1, "\\d")
        c == RunEnd(s, b + 1, "\\d")
        two == a > i /\ CharAt(s, a) = "." /\ b > a + 1
        three == two /\ CharAt(s, b) = "." /\ c > b + 1
    IN  IF parts = 3 THEN (IF three THEN SubSeq(s, i, c - 1) ELSE "")
        ELSE IF parts = 2 THEN (IF two THEN SubSeq(s, i, b - 1) ELSE "")
        ELSE IF three THEN SubSeq(s, i, c - 1)
        ELSE IF two THEN SubSeq(s, i, b - 1)
        ELSE ""

\* Where the separator of a version pattern ends when it starts at i, 0 when
\* it does not match there.  "?" is one optional character of the class, "1"
\* one required character, "quoted" is [:\s]*['"]? and "" no separator.
SeparatorEnd(s, i, class, mode) ==
    CASE mode = "" -> i
      [] mode = "?" -> IF InClass(class, CharAt(s, i)) THEN i + 1 ELSE i
      [] mode = "1" -> IF InClass(class, CharAt(s, i)) THEN i + 1 ELSE 0
      [] mode = "quoted" ->
            LET q == RunEnd(s, i, "[:\\s]")
            IN  IF CharAt(s, q) \in {"'", "\""} THEN q + 1 ELSE q

\* A version pattern: the literal texts it may start with, its separator,
\* whether a 'v' may stand before the digits, and the parts of the version.
VersionPattern(prefixes, class, mode, v, parts) ==
    [prefixes |-> prefixes, class |-> class, mode |-> mode, v |-> v, parts |-> parts]

\* versionPatterns of detectTechnologyVersion.
versionPatterns(techName) ==
    CASE techName = "React" ->
            <<VersionPattern({"react"}, "[.\\-]", "?", FALSE, 3),
              VersionPattern({"react"}, "[-_]", "1", FALSE, 3),
              VersionPattern({"react"}, "[.\\-]", "1", FALSE, 2),
              VersionPattern({"react"}, "[-_]", "1", FALSE, 2),
              VersionPattern({"react.version"}, "[.\\-]", "?", FALSE, 3),
              VersionPattern({"react-dom@"}, "", "", FALSE, 3),
              VersionPattern({"react.version", "react-version"}, "", "quoted", FALSE, 3),
              VersionPattern({"react.v", "react-v"}, "", "", FALSE, 3)>>
      [] techName = "jQuery" ->
            <<VersionPattern({"jquery"}, "[.\\-]", "?", FALSE, 3),
              VersionPattern({"jquery"}, "[.\\-]", "?", FALSE, 2),
              VersionPattern({"jquery.v", "jquery-v"}, "", "", FALSE, 3),
              VersionPattern({"jquery.v", "jquery-v"}, "", "", FALSE, 2),
              VersionPattern({"jquery.version", "jquery-version"}, "[.\\-]", "?", FALSE, 3)>>
      [] techName = "Bootstrap" ->
            <<VersionPattern({"bootstrap"}, "[.\\-@]", "?", FALSE, 3),
              VersionPattern({"bootstrap"}, "[.\\-@]", "?", FALSE, 2),
              VersionPattern({"bootstrap.v", "bootstrap-v"}, "", "", FALSE, 3),
              VersionPattern({"bootstrap.version", "bootstrap-version"},
                             "[.\\-]", "?", FALSE, 3)>>
      [] techName = "Vue.js" ->
            <<VersionPattern({"vue"}, "[.\\-@]", "?", FALSE, 3),
              VersionPattern({"vue"}, "[.\\-@]", "?", FALSE, 2),
              VersionPattern({"vue.v", "vue-v"}, "", "", FALSE, 3),
              VersionPattern({"vue.version", "vue-version"}, "[.\\-]", "?", FALSE, 3)>>
      [] techName = "Angular" ->
            <<VersionPattern({"@angular.core", "@angular/core"}, "[.\\-@]", "?", FALSE, 3),
              VersionPattern({"@angular.cli", "@angular/cli"}, "[.\\-@]", "?", FALSE, 3),
              VersionPattern({"angular.", "angular-"}, "", "", TRUE, 3),
              VersionPattern({"ng.version", "ng-version"}, "", "quoted", FALSE, 3)>>
      [] techName = "TypeScript" ->
            <<VersionPattern({"typescript"}, "[.\\-@]", "?", FALSE, 3),
              VersionPattern({"typescript"}, "[.\\-@]", "?", FALSE, 2),
              VersionPattern({"ts"}, "[.\\-@]", "?", FALSE, 3)>>
      [] techName = "Node.js/Express" ->
            <<VersionPattern({"node"}, "[.\\-]", "?", FALSE, 3),
              VersionPattern({"nodejs"}, "[.\\-]", "?", FALSE, 3),
              VersionPattern({"express"}, "[.\\-@]", "?", FALSE, 3)>>
      [] OTHER -> <<>>

\* The version the pattern captures when its match starts at i, "" when it
\* does not match there.
PatternVersionAt(lower, i, pattern) ==
    IF \E prefix \in pattern.prefixes : StartsAt(lower, i, prefix)
    THEN LET prefix == CHOOSE prefix \in pattern.prefixes :
                           StartsAt(lower, i, prefix)
             sep == SeparatorEnd(lower, i + Len(prefix), pattern.class, pattern.mode)
             digits == IF pattern.v /\ CharAt(lower, sep) = "v" THEN sep + 1 ELSE sep
         IN  IF sep = 0 THEN "" ELSE VersionAt(lower, digits, pattern.parts)
    ELSE ""

\* The version in the first match of the pattern, "" without a match.
PatternVersion(lower, pattern) ==
    LET starts == {i \in 1..Len(lower) : PatternVersionAt(lower, i, pattern) # ""}
    IN  IF starts = {} THEN ""
        ELSE PatternVersionAt(lower, CHOOSE i \in starts : \A j \in starts : i <= j,
                              pattern)

\* for (const pattern of patterns): the version of the first pattern that
\* matches.
RECURSIVE FirstPatternVersion(_, _)
FirstPatternVersion(lower, patterns) ==
    IF patterns = <<>> THEN ""
    ELSE IF PatternVersion(lower, Head(patterns)) # ""
         THEN PatternVersion(lower, Head(patterns))
         ELSE FirstPatternVersion(lower, Tail(patterns))

\* techName.toLowerCase().replace(/[^a-z]/g, '')
RECURSIVE CleanTechName(_)
CleanTechName(techName) ==
    IF techName = "" THEN ""
    ELSE LET c == LowerChar(Head(techName))
         IN  (IF IsAlpha(c) THEN c ELSE "") \o CleanTechName(Tail(techName))

\* The version genericPattern captures when its match starts at i: the name,
\* the longest run of [.-@_\s] that still leaves a version after it (the
\* class is a range from '.' to '@' and holds the digits), an optional 'v'
\* and the version.
GenericVersionAt(lower, i, clean) ==
    IF ~StartsAt(lower, i, clean) THEN ""
    ELSE LET from == i + Len(clean)
             DigitsAt(k) == IF CharAt(lower, k) = "v" THEN k + 1 ELSE k
             ends == {k \in from..RunEnd(lower, from, "[.-@_\\s]") :
                         VersionAt(lower, DigitsAt(k), 0) # ""}
         IN  IF ends = {} THEN ""
             ELSE VersionAt(lower, DigitsAt(CHOOSE k \in ends : \A j \in ends : j <= k), 0)

GenericVersion(lower, clean) ==
    LET starts == {i \in 1..Len(lower) : GenericVersionAt(lower, i, clean) # ""}
    IN  IF starts = {} THEN ""
        ELSE GenericVersionAt(lower, CHOOSE i \in starts : \A j \in starts : i <= j, clean)

\* The detected version, "" for undefined.
detectTechnologyVersion(html, techName) ==
    LET htmlLower == ToLowerCase(html)
        clean == CleanTechName(techName)
    IN  IF ~Includes(htmlLower, clean) THEN ""
        ELSE IF versionPatterns(techName) # <<>>
             THEN FirstPatternVersion(htmlLower, versionPatterns(techName))
             ELSE GenericVersion(htmlLower, clean)

\* Does one of the signature's predicates hold?
SignatureMatches(signature, html, doc) ==
    \/ \E text \in signature.html : Includes(html, text)
    \/ signature.selectors \cap doc.matches # {}
    \/ \E text \in signature.scripts : \E src \in doc.scripts : Includes(src, text)
    \/ \E text \in signature.links : \E href \in doc.links : Includes(href, text)
    \/ \E text \in signature.generator : Includes(doc.generator, text)

\* technologies.add(name) for every signature that matches: the names in the
\* order of their insertion, each once.
RECURSIVE AddedTechnologies(_, _, _, _)
AddedTechnologies(signatures, html, doc, added) ==
    IF signatures = <<>> THEN added
    ELSE LET name == Head(signatures).name
             next == IF SignatureMatches(Head(signatures), html, doc)
                        /\ \A i \in 1..Len(added) : added[i] # name
                     THEN Append(added, name) ELSE added
         IN  AddedTechnologies(Tail(signatures), html, doc, next)

\* The code of a character of a technology name.
CharCode(c) ==
    LET digit == IndexOfFrom("0123456789", c, 1)
        upper == IndexOfFrom("ABCDEFGHIJKLMNOPQRSTUVWXYZ", c, 1)
        lower == IndexOfFrom("abcdefghijklmnopqrstuvwxyz", c, 1)
    IN  CASE c = " " -> 32
          [] c = "." -> 46
          [] c = "/" -> 47
          [] digit # 0 -> 47 + digit
          [] upper # 0 -> 64 + upper
          [] lower # 0 -> 96 + lower

\* a before b in the order of Array.prototype.sort() without a comparator:
\* by the codes of their characters.
CodeUnitLess(a, b) ==
    \E i \in 1..(Len(b)) :
        /\ \A j \in 1..(i - 1) : j <= Len(a) /\ CharAt(a, j) = CharAt(b, j)
        /\ \/ i = Len(a) + 1
           \/ i <= Len(a) /\ CharCode(CharAt(a, i)) < CharCode(CharAt(b, i))

\* .sort() of names that are all different.
RECURSIVE SortNames(_)
SortNames(names) ==
    IF names = {} THEN <<>>
    ELSE LET first == CHOOSE n \in names : \A m \in names \ {n} : CodeUnitLess(n, m)
         IN  <<first>> \o SortNames(names \ {first})

detectTechnologies(html, doc) ==
    LET added == AddedTechnologies(technologySignatures, html, doc, <<>>)
        sorted == SortNames({added[i] : i \in 1..Len(added)})
    IN  [i \in 1..Len(sorted) |->
            [name |-> sorted[i],
             version |-> detectTechnologyVersion(html, sorted[i]),
             currentVersion |-> CurrentVersionOf(sorted[i])]]

(***************************************************************************)
(* detectVulnerableTechnologies                                            *)
(***************************************************************************)

\* vulnerabilityDatabase: the version prefixes and the finding of each rule.
vulnerabilityDatabase ==
    <<[name |-> "jQuery", versions |-> <<"1.", "2.", "3.0.", "3.1.", "3.2.", "3.3.", "3.4.">>,
       vulnerability |-> "jQuery XSS vulnerabilities and prototype pollution (CVE-2020-11022, CVE-2020-11023)",
       severity |-> "high"],
      [name |-> "React", versions |-> <<"15.", "16.", "17.0.", "17.1.", "17.2.">>,
       vulnerability |-> "XSS vulnerability via dangerouslySetInnerHTML and URL parsing (CVE-2019-7580)",
       severity |-> "high"],
      [name |-> "WordPress",
       versions |-> <<"4.", "5.0.", "5.1.", "5.2.", "5.3.", "5.4.", "5.5.", "5.6.", "5.7.", "5.8.">>,
       vulnerability |-> "WordPress XSS, SQL Injection, and RCE vulnerabilities (Multiple CVEs)",
       severity |-> "critical"],
      [name |-> "PHP", versions |-> <<"5.", "7.0.", "7.1.", "7.2.", "7.3.", "7.4.">>,
       vulnerability |-> "PHP multiple vulnerabilities including RCE and file inclusion (CVE-2023-3247)",
       severity |-> "critical"],
      [name |-> "Angular",
       versions |-> <<"1.", "2.", "4.", "5.", "6.", "7.", "8.", "9.", "10.", "11.", "12.", "13.", "14.">>,
       vulnerability |-> "Angular XSS vulnerability in template parsing (CVE-2020-5216)",
       severity |-> "high"],
      [name |-> "Vue.js",
       versions |-> <<"2.0.", "2.1.", "2.2.", "2.3.", "2.4.", "2.5.", "2.6.", "3.0.", "3.1.">>,
       vulnerability |-> "XSS vulnerability via v-html directive (CVE-2023-2649)",
       severity |-> "high"],
      [name |-> "Bootstrap", versions |-> <<"3.", "4.", "5.0.", "5.1.">>,
       vulnerability |-> "Bootstrap XSS vulnerability in tooltip/popover (CVE-2019-8331)",
       severity |-> "medium"],
      [name |-> "jQuery UI", versions |-> <<"1.10.", "1.11.", "1.12.">>,
       vulnerability |-> "jQuery UI XSS vulnerability in removeClass function",
       severity |-> "high"],
      [name |-> "Moment.js", versions |-> <<"2.22.", "2.23.", "2.24.", "2.25.", "2.26.">>,
       vulnerability |-> "Moment.js path traversal vulnerability (CVE-2022-24729)",
       severity |-> "high"],
      [name |-> "Lodash", versions |-> <<"4.17.0", "4.17.1", "4.17.2", "4.17.3", "4.17.4">>,
       vulnerability |-> "Lodash prototype pollution vulnerability (CVE-2019-10744)",
       severity |-> "critical"],
      [name |-> "Express", versions |-> <<"4.0.", "4.1.", "4.2.", "4.3.", "4.4.", "4.5.", "4.6.">>,
       vulnerability |-> "Express framework XSS and open redirect vulnerabilities",
       severity |-> "medium"]>>

\* Does the rule make the technology vulnerable?  An undetected version is "".
RuleMatches(rule, tech) ==
    /\ rule.name = tech.name
    /\ tech.version # ""
    /\ \E i \in 1..Len(rule.versions) : StartsWith(tech.version, rule.versions[i])

\* technologies.forEach: one finding for a technology whose rule matches.
RECURSIVE TechnologyFindings(_)
TechnologyFindings(technologies) ==
    IF technologies = <<>> THEN <<>>
    ELSE LET tech == Head(technologies)
             matched == {i \in 1..Len(vulnerabilityDatabase) :
                            RuleMatches(vulnerabilityDatabase[i], tech)}
         IN  (IF matched = {} THEN <<>>
              ELSE LET rule == vulnerabilityDatabase[CHOOSE i \in matched : TRUE]
                   IN  <<[name |-> tech.name, version |-> tech.version,
                          vulnerability |-> rule.vulnerability,
                          severity |-> rule.severity, lineNumbers |-> <<>>]>>)
             \o TechnologyFindings(Tail(technologies))

\* /word\s*=/ on a lowercased string.
MatchesAssignment(lower, word) ==
    \E i \in 1..(Len(lower) - Len(word) + 1) :
        /\ SubSeq(lower, i, i + Len(word) - 1) = word
        /\ CharAt(lower, RunEnd(lower, i + Len(word), "\\s")) = "="

\* The text from i up to the next ")" (to the end when there is none): what
\* [^)]* can cover.
UpToParen(lower, i) ==
    LET close == IndexOfFrom(lower, ")", i)
    IN  SubSeq(lower, i, IF close = 0 THEN Len(lower) ELSE close - 1)

\* /\.html\s*\(\s*[^)]*(?:atob|base64|nombre|variantListHtml|userContent|
\* dataInput|htmlContent)[^)]*\)/ on a lowercased string.
MatchesHtmlCall(lower) ==
    \E i \in 1..(Len(lower) - 4) :
        /\ SubSeq(lower, i, i + 4) = ".html"
        /\ LET open == RunEnd(lower, i + 5, "\\s")
           IN  /\ CharAt(lower, open) = "("
               /\ IndexOfFrom(lower, ")", open + 1) # 0
               /\ \E word \in {"atob", "base64", "nombre", "variantlisthtml",
                               "usercontent", "datainput", "htmlcontent"} :
                     Includes(UpToParen(lower, open + 1), word)

\* The words of the jQuery .html() pattern before 'nombre' and
\* 'variantListHtml' were added to it.
JQueryHtmlWordsBase64Only == {"atob", "base64"}

\* The words of the jQuery .html() pattern.
JQueryHtmlWords == {"atob", "base64", "nombre", "variantlisthtml"}

\* /\$\([^)]*\)\.html\s*\(\s*(?:[^)]*atob|[^)]*base64|[^)]*nombre|
\* [^)]*variantListHtml)/ on a lowercased string.
MatchesJQueryHtmlCall(lower) ==
    \E i \in 1..(Len(lower) - 1) :
        /\ SubSeq(lower, i, i + 1) = "$("
        /\ LET close == IndexOfFrom(lower, ")", i + 2)
           IN  /\ close # 0
               /\ StartsAt(lower, close + 1, ".html")
               /\ LET open == RunEnd(lower, close + 6, "\\s")
                  IN  /\ CharAt(lower, open) = "("
                      /\ \E word \in JQueryHtmlWords :
                            Includes(UpToParen(lower, open + 1), word)

IsQuote(c) == c \in {"'", "\""}

\* /setTimeout\s*\(\s*['"]/ on a lowercased string.
MatchesSetTimeoutString(lower) ==
    \E i \in 1..(Len(lower) - 9) :
        /\ SubSeq(lower, i, i + 9) = "settimeout"
        /\ LET open == RunEnd(lower, i + 10, "\\s")
           IN  /\ CharAt(lower, open) = "("
               /\ IsQuote(CharAt(lower, RunEnd(lower, open + 1, "\\s")))

\* /location\s*=\s*['"]?['"]?\s*\+/ on a lowercased string.
MatchesLocationConcat(lower) ==
    \E i \in 1..(Len(lower) - 7) :
        /\ SubSeq(lower, i, i + 7) = "location"
        /\ LET eq == RunEnd(lower, i + 8, "\\s")
           IN  /\ CharAt(lower, eq) = "="
               /\ LET q == RunEnd(lower, eq + 1, "\\s")
                      quotes == IF ~IsQuote(CharAt(lower, q)) THEN 0
                                ELSE IF ~IsQuote(CharAt(lower, q + 1)) THEN 1 ELSE 2
                  IN  CharAt(lower, RunEnd(lower, q + quotes, "\\s")) = "+"

\* /debug\s*=\s*true/ on a lowercased string.
MatchesDebugTrue(lower) ==
    \E i \in 1..(Len(lower) - 4) :
        /\ SubSeq(lower, i, i + 4) = "debug"
        /\ LET eq == RunEnd(lower, i + 5, "\\s")
           IN  /\ CharAt(lower, eq) = "="
               /\ LET v == RunEnd(lower, eq + 1, "\\s")
                  IN  StartsAt(lower, v, "true")

\* vulnerablePatterns: the finding of each pattern, in the order of the list.
\* The finding's text is the vulnerability, " - " and the exploitation.
vulnerablePatterns ==
    <<[pattern |-> "eval", vulnerability |-> "Use of dangerous eval() function",
       severity |-> "high"],
      [pattern |-> "document.write", vulnerability |-> "Potential XSS via document.write()",
       severity |-> "medium"],
      [pattern |-> "innerHTML", vulnerability |-> "Potential XSS via innerHTML assignment",
       severity |-> "medium"],
      [pattern |-> ".html", vulnerability |-> "XSS via .html() with potentially unsafe content",
       severity |-> "high"],
      [pattern |-> "$().html",
       vulnerability |-> "jQuery XSS via .html() with decoded/base64 content",
       severity |-> "high"],
      [pattern |-> "setTimeout",
       vulnerability |-> "Potential XSS via setTimeout with string parameter",
       severity |-> "medium"],
      [pattern |-> "location", vulnerability |-> "Potential redirect/open redirect attack",
       severity |-> "medium"],
      [pattern |-> "console", vulnerability |-> "Console logging in production code",
       severity |-> "low"],
      [pattern |-> "debug", vulnerability |-> "Debug mode enabled in production",
       severity |-> "medium"]>>

\* Does the pattern (all of them are case-insensitive) match in the text?
PatternMatches(pattern, text) ==
    LET lower == ToLowerCase(text)
    IN  CASE pattern = "eval" -> MatchesCall(lower, "eval")
          [] pattern = "document.write" -> MatchesCall(lower, "document.write")
          [] pattern = "innerHTML" -> MatchesAssignment(lower, "innerhtml")
          [] pattern = ".html" -> MatchesHtmlCall(lower)
          [] pattern = "$().html" -> MatchesJQueryHtmlCall(lower)
          [] pattern = "setTimeout" -> MatchesSetTimeoutString(lower)
          [] pattern = "location" -> MatchesLocationConcat(lower)
          [] pattern = "console" ->
                \/ MatchesCall(lower, "console.log")
                \/ MatchesCall(lower, "console.error")
                \/ MatchesCall(lower, "console.warn")
          [] pattern = "debug" -> MatchesDebugTrue(lower)

\* foundLines: the 1-based numbers of the lines the pattern matches in.
RECURSIVE FoundLines(_, _, _)
FoundLines(pattern, lines, index) ==
    IF index > Len(lines) THEN <<>>
    ELSE (IF PatternMatches(pattern, lines[index]) THEN <<index>> ELSE <<>>)
         \o FoundLines(pattern, lines, index + 1)

\* vulnerablePatterns.forEach: one finding for a pattern with a match in the
\* HTML.  'shown' and 'more' are what the version text says: the first three
\* line numbers, and '...' when there are others.
RECURSIVE PatternFindings(_, _)
PatternFindings(patterns, html) ==
    IF patterns = <<>> THEN <<>>
    ELSE LET p == Head(patterns)
             foundLines == FoundLines(p.pattern, SplitLines(html), 1)
         IN  (IF PatternMatches(p.pattern, html)
              THEN <<[name |-> "JavaScript Code Pattern",
                      version |-> [shown |-> SubSeq(foundLines, 1, Min(3, Len(foundLines))),
                                   more |-> Len(foundLines) > 3],
                      vulnerability |-> p.vulnerability,
                      severity |-> p.severity,
                      lineNumbers |-> foundLines]>>
              ELSE <<>>)
             \o PatternFindings(Tail(patterns), html)

\* The two checks for insecure configuration after the patterns.
ConfigurationFindings(html) ==
    (IF Includes(html, "debug=true") \/ Includes(html, "debug = true")
     THEN <<[name |-> "Debug Configuration", version |-> "Enabled",
             vulnerability |-> "Debug mode enabled in production",
             severity |-> "medium", lineNumbers |-> <<>>]>>
     ELSE <<>>)
    \o (IF Includes(html, "console.log") \/ Includes(html, "console.error")
        THEN <<[name |-> "Console Logging", version |-> "Present",
                vulnerability |-> "Console logging in production code",
                severity |-> "low", lineNumbers |-> <<>>]>>
        ELSE <<>>)

detectVulnerableTechnologies(technologies, html) ==
    TechnologyFindings(technologies)
    \o PatternFindings(vulnerablePatterns, html)
    \o ConfigurationFindings(html)

(***************************************************************************)
(* The content analysis of a page on its own                               *)
(***************************************************************************)

\* The longest page, in lines.
MaxLines == 2

\* The calls of detectTechnologies on one page.
MaxRuns == 2

\* The lines a page is made of, in the order they stand in it.
PageLines ==
    <<"<p>hello</p>",
      "$(\"#x\").html(nombre)",
      "$(\"#x\").text(nombre)",
      "div.innerHTML = \"<b>static</b>\"",
      "div.innerHTML = userInput",
      "console.log(x)",
      "var debug = true",
      "eval(code)",
      "<script src=\"/js/jquery-1.12.4.min.js\"></script>",
      "<p>angular on asp.net</p>",
      "<meta content=\"wordpress 5.8.1\">",
      "react-dom@18.2.0",
      "vue@2.6.14",
      "<script src=\"/JS/JQUERY-3.6.0.MIN.JS\"></script>">>

\* The pages: up to MaxLines of the lines, joined by line feeds.
Pages ==
    LET Picks == {ix \in UNION {[1..n -> 1..Len(PageLines)] : n \in 0..MaxLines} :
                     \A i, j \in 1..Len(ix) : i < j => ix[i] < ix[j]}
    IN  {JoinWith([i \in 1..Len(ix) |-> PageLines[ix[i]]], "\n") : ix \in Picks}

\* The documents: what the selectors, script sources, link targets and
\* generator tag of a parsed page can be.
Documents ==
    {EmptyDocument,
     [matches |-> {".container-fluid, .container", "#__next"},
      scripts |-> {"https://cdn.example/vue.min.js"},
      links |-> {"/css/bootstrap.min.css"},
      generator |-> ""],
     [matches |-> {".is-primary"},
      scripts |-> {},
      links |-> {"/css/site.less"},
      generator |-> "WordPress 5.8.1"]}

InitContent ==
    /\ AppIdle /\ ScanIdle /\ RobotsIdle /\ ScoreIdle /\ HeadersIdle
    /\ ReportIdle /\ HistoryIdle
    /\ page \in Pages
    /\ document \in Documents
    /\ technologyRuns = <<>>
    /\ vulnerableTechnologies = <<>>
    /\ analyzed = "nothing"

\* detectTechnologies, were its results kept in a list outside the call.
DetectTechnologiesAccumulating ==
    /\ Len(technologyRuns) < MaxRuns
    /\ technologyRuns' =
          Append(technologyRuns,
                 (IF technologyRuns = <<>> THEN <<>>
                  ELSE technologyRuns[Len(technologyRuns)])
                 \o detectTechnologies(page, document))
    /\ UNCHANGED <<page, document, vulnerableTechnologies, analyzed, headerVars,
                   reportVars, historyVars,
                   appVars, scanVars, robotsVars, scoreVars>>

\* detectTechnologies(html, doc)
DetectTechnologies ==
    /\ Len(technologyRuns) < MaxRuns
    /\ technologyRuns' = Append(technologyRuns, detectTechnologies(page, document))
    /\ UNCHANGED <<page, document, vulnerableTechnologies, analyzed, headerVars,
                   reportVars, historyVars,
                   appVars, scanVars, robotsVars, scoreVars>>

\* detectVulnerableTechnologies(technologies, html)
DetectVulnerableTechnologies ==
    /\ technologyRuns # <<>>
    /\ analyzed = "nothing"
    /\ vulnerableTechnologies' = detectVulnerableTechnologies(technologyRuns[1], page)
    /\ analyzed' = "vulnerabilities"
    /\ UNCHANGED <<page, document, technologyRuns, headerVars,
                   reportVars, historyVars,
                   appVars, scanVars, robotsVars, scoreVars>>

NextContent == DetectTechnologies \/ DetectVulnerableTechnologies

SpecContent == InitContent /\ [][NextContent]_vars

(***************************************************************************)
(* analyzeSecurityHeaders on its own                                       *)
(***************************************************************************)

\* A Strict-Transport-Security policy without a max-age.
NoMaxAge == -1

\* max-age values on both sides of one year.
MaxAges == {0, 3600, OneYear - 1, OneYear, OneYear + 1, 2 * OneYear}

\* The Strict-Transport-Security policies a site may send: each directive
\* once at most, max-age first or last.
HstsPolicies ==
    [maxAge : MaxAges \cup {NoMaxAge}, includeSubDomains : BOOLEAN,
     preload : BOOLEAN, maxAgeLast : BOOLEAN]

HstsDirectives(p) ==
    LET maxAge == IF p.maxAge = NoMaxAge THEN <<>>
                  ELSE <<"max-age=" \o NumberText(p.maxAge)>>
        rest == (IF p.includeSubDomains THEN <<"includeSubDomains">> ELSE <<>>)
                \o (IF p.preload THEN <<"preload">> ELSE <<>>)
    IN  IF p.maxAgeLast THEN rest \o maxAge ELSE maxAge \o rest

\* The header value; "" (no header) for a policy without directives.
RenderHsts(p) == JoinWith(HstsDirectives(p), "; ")

\* The Content-Security-Policy policies a site may send.
CspPolicies ==
    [defaultSrc : BOOLEAN,
     scriptSrc : {"", "script-src", "script-src-elem"},
     styleSrc : BOOLEAN,
     inline : {"", "script", "style"},
     token : {"", "'nonce-r4nd0m'", "'sha256-q1w2e3'", "'sha384-q1w2e3'"}]

\* The directives of a policy, each a name and its sources.  Sources meant
\* for scripts go to default-src when there is no script directive.
CspDirectives(p) ==
    LET scriptSources ==
            (IF p.inline = "script" THEN <<"'unsafe-inline'">> ELSE <<>>)
            \o (IF p.token # "" THEN <<p.token>> ELSE <<>>)
        styleSources == IF p.inline = "style" THEN <<"'unsafe-inline'">> ELSE <<>>
    IN  (IF p.defaultSrc
         THEN <<[name |-> "default-src",
                 sources |-> <<"'self'">>
                             \o (IF p.scriptSrc = "" THEN scriptSources ELSE <<>>)]>>
         ELSE <<>>)
        \o (IF p.scriptSrc # ""
            THEN <<[name |-> p.scriptSrc, sources |-> <<"'self'">> \o scriptSources]>>
            ELSE <<>>)
        \o (IF p.styleSrc
            THEN <<[name |-> "style-src", sources |-> <<"'self'">> \o styleSources]>>
            ELSE <<>>)

\* The header value; "" (no header) for a policy without directives.
RenderCsp(p) ==
    LET directives == CspDirectives(p)
    IN  JoinWith([i \in 1..Len(directives) |->
                     directives[i].name \o " " \o JoinWith(directives[i].sources, " ")],
                 "; ")

\* The other headers a site sends with them.
OtherHeaders(profile) ==
    CASE profile = "hardened" ->
            [n \in AnalyzedHeaders |->
                CASE n = "x-xss-protection" -> "1; mode=block"
                  [] n = "x-content-type-options" -> "nosniff"
                  [] n = "referrer-policy" -> "strict-origin-when-cross-origin"
                  [] n = "x-frame-options" -> "DENY"
                  [] OTHER -> ""]
      [] profile = "leaky" ->
            [n \in AnalyzedHeaders |->
                CASE n = "x-xss-protection" -> "0"
                  [] n = "referrer-policy" -> "unsafe-url"
                  [] n = "x-frame-options" -> "ALLOWALL"
                  [] n = "server" -> "nginx/1.18.0"
                  [] n = "x-powered-by" -> "Express"
                  [] OTHER -> ""]
      [] OTHER -> [n \in AnalyzedHeaders |-> ""]

SitePolicies == [hsts : HstsPolicies, csp : CspPolicies, other : {"none", "hardened", "leaky"}]

\* The headers of the response of a site with the policy.
HeadersOf(policy) ==
    [n \in AnalyzedHeaders |->
        CASE n = "strict-transport-security" -> RenderHsts(policy.hsts)
          [] n = "content-security-policy" -> RenderCsp(policy.csp)
          [] OTHER -> OtherHeaders(policy.other)[n]]

InitHeaders ==
    /\ AppIdle /\ ScanIdle /\ RobotsIdle /\ ScoreIdle /\ ContentIdle
    /\ ReportIdle /\ HistoryIdle
    /\ sitePolicy \in SitePolicies
    /\ responseHeaders = HeadersOf(sitePolicy)
    /\ securityHeaders = analyzeSecurityHeaders([n \in AnalyzedHeaders |-> ""])
    /\ analyzed = "nothing"

\* analyzeSecurityHeaders(response.headers)
AnalyzeSecurityHeaders ==
    /\ analyzed = "nothing"
    /\ securityHeaders' = analyzeSecurityHeaders(responseHeaders)
    /\ analyzed' = "headers"
    /\ UNCHANGED <<sitePolicy, responseHeaders, contentVars, reportVars, historyVars,
                   appVars, scanVars,
                   robotsVars, scoreVars>>

NextHeaders == AnalyzeSecurityHeaders

SpecHeaders == InitHeaders /\ [][NextHeaders]_vars

(***************************************************************************)
(* The analysis of a fetched page as a whole                               *)
(***************************************************************************)

\* Math.floor(Math.random() * 365) + 30 lies in 30..394; the values on both
\* sides of the 90 days that calculatePrivacyScore asks about.
DaysRemainingValues == {30, 89, 90, 394}

\* sslAnalysis.additionalInfo of a URL that is not https (undefined).
NoAdditionalInfo ==
    [present |-> FALSE, certificateIssuer |-> "", protocolVersion |-> "",
     cipherSuite |-> "", mixedContent |-> FALSE, daysRemaining |-> 0]

\* analyzeSSL(url, response), with the number Math.random() led to.
analyzeSSL(address, responseHeaderValues, randomDays) ==
    LET isHttps == StartsWith(address, "https://")
        serverHeader == responseHeaderValues["server"]
        protocolVersion ==
            IF Includes(serverHeader, "nginx/1.16") \/ Includes(serverHeader, "Apache/2.4")
            THEN "TLS 1.2" ELSE "TLS 1.2+"
    IN  [hasSSL |-> isHttps,
         validCertificate |-> isHttps,
         tlsVersion |-> IF isHttps THEN "TLS 1.2+" ELSE "N/A",
         httpsEnabled |-> isHttps,
         additionalInfo |->
             IF isHttps
             THEN [present |-> TRUE,
                   certificateIssuer |-> IF Includes(serverHeader, "Let's Encrypt")
                                         THEN "Let's Encrypt" ELSE "Unknown",
                   protocolVersion |-> protocolVersion,
                   cipherSuite |-> "Unknown",
                   mixedContent |-> FALSE,
                   daysRemaining |-> randomDays]
             ELSE NoAdditionalInfo]

\* severityPenalty of calculatePrivacyScore for one finding.
SeverityPenalty(vuln) ==
    IF Includes(vuln.name, "Code Pattern")
    THEN (IF Includes(vuln.vulnerability, "eval()") THEN 8
          ELSE IF Includes(vuln.vulnerability, "document.write") THEN 4
          ELSE IF Includes(vuln.vulnerability, "innerHTML") THEN 4
          ELSE IF Includes(vuln.vulnerability, "Console") THEN 1
          ELSE 3)
    ELSE IF Includes(vuln.name, "Configuration") \/ Includes(vuln.name, "Logging")
    THEN 2
    ELSE (IF vuln.severity = "critical" THEN 8
          ELSE IF vuln.severity = "high" THEN 6
          ELSE IF vuln.severity = "medium" THEN 4
          ELSE 2)

RECURSIVE SumOfPenalties(_)
SumOfPenalties(findings) ==
    IF findings = <<>> THEN 0
    ELSE SeverityPenalty(Head(findings)) + SumOfPenalties(Tail(findings))

\* calculatePrivacyScore(data), in tenths of a point (a link costs 0.5, an
\* image 0.3).
calculatePrivacyScore(data) ==
    LET sh == data.securityHeaders
        ssl == data.sslAnalysis
        days == IF ssl.additionalInfo.present /\ ssl.additionalInfo.daysRemaining # 0
                THEN ssl.additionalInfo.daysRemaining ELSE 365
        result ==
            1000
            - (IF ~sh.csp THEN 100 ELSE 0)
            - (IF ~sh.hsts THEN 80 ELSE 0)
            - (IF ~sh.xss THEN 80 ELSE 0)
            - (IF ~sh.contentType THEN 50 ELSE 0)
            - (IF ~ssl.httpsEnabled THEN 250 ELSE 0)
            - 10 * SumOfPenalties(data.vulnerableTechnologies)
            - (IF sh.serverExposed THEN 30 ELSE 0)
            - (IF sh.poweredByExposed THEN 20 ELSE 0)
            - (IF ssl.additionalInfo.present /\ ssl.additionalInfo.mixedContent
               THEN 60 ELSE 0)
            - (IF days < 30 THEN 80 ELSE IF days < 90 THEN 30 ELSE 0)
            - Min(data.externalLinks * 5, 100)
            - Min(data.imagesWithoutAlt * 3, 50)
            + (IF sh.referrerPolicyValid THEN 30 ELSE 0)
            + (IF sh.frameOptionsValid THEN 30 ELSE 0)
            + (IF Len(data.vulnerableTechnologies) = 0 THEN 50 ELSE 0)
        floored == IF ssl.httpsEnabled /\ result < 100 THEN 100 ELSE result
    IN  Max(floored, 0)

\* The analyses of one page.
MaxAnalyses == 2

\* The addresses the page may have been fetched from.
AnalysisUrls == {"http://example.com", "https://example.com"}

\* The header policies of the sites analysed: with and without a valid
\* Strict-Transport-Security and Content-Security-Policy, with each set of
\* other headers.
AnalysisPolicies ==
    {[hsts |-> [maxAge |-> IF strict THEN OneYear ELSE NoMaxAge,
                includeSubDomains |-> strict, preload |-> FALSE, maxAgeLast |-> FALSE],
      csp |-> [defaultSrc |-> strict,
               scriptSrc |-> IF strict THEN "script-src" ELSE "",
               styleSrc |-> FALSE, inline |-> "", token |-> ""],
      other |-> other] : strict \in BOOLEAN, other \in {"none", "hardened", "leaky"}}

\* The pages analysed: without findings, with a code pattern, with a
\* vulnerable library, with configuration findings.
AnalysisPages ==
    {PageLines[1], PageLines[8], PageLines[9], PageLines[6] \o "\n" \o PageLines[7]}

InitAnalysis ==
    /\ ethicalMode = TRUE /\ loading = FALSE /\ error = "" /\ currentResult = NoResult
    /\ ScanIdle /\ RobotsIdle /\ ScoreIdle /\ HistoryIdle
    /\ url \in AnalysisUrls
    /\ sitePolicy \in AnalysisPolicies
    /\ responseHeaders = HeadersOf(sitePolicy)
    /\ securityHeaders = analyzeSecurityHeaders([n \in AnalyzedHeaders |-> ""])
    /\ page \in AnalysisPages
    /\ document = EmptyDocument
    /\ technologyRuns = <<>>
    /\ vulnerableTechnologies = <<>>
    /\ analyzed = "nothing"
    /\ externalLinks \in {0, 25}
    /\ imagesWithoutAlt \in {0, 20}
    /\ analyses = <<>>

\* handleScrape from detectTechnologies to calculatePrivacyScore: the
\* analysis of the page that was fetched.
AnalyzePage ==
    /\ Len(analyses) < MaxAnalyses
    /\ \E technologies \in {detectTechnologies(page, document)},
          headerReport \in {analyzeSecurityHeaders(responseHeaders)},
          randomDays \in DaysRemainingValues :
          \E findings \in {detectVulnerableTechnologies(technologies, page)} :
             \E data \in {[technologies |-> technologies,
                           securityHeaders |-> headerReport,
                           sslAnalysis |-> analyzeSSL(url, responseHeaders, randomDays),
                           vulnerableTechnologies |-> findings,
                           externalLinks |-> externalLinks,
                           imagesWithoutAlt |-> imagesWithoutAlt]} :
                analyses' = Append(analyses,
                                   [technologies |-> data.technologies,
                                    securityHeaders |-> data.securityHeaders,
                                    sslAnalysis |-> data.sslAnalysis,
                                    vulnerableTechnologies |-> data.vulnerableTechnologies,
                                    privacyScore |-> calculatePrivacyScore(data)])
    /\ UNCHANGED <<externalLinks, imagesWithoutAlt, headerVars, contentVars, analyzed,
                   historyVars, appVars, scanVars, robotsVars, scoreVars>>

NextAnalysis == AnalyzePage

SpecAnalysis == InitAnalysis /\ [][NextAnalysis]_vars

(***************************************************************************)
(* The history and the scans that write to it                              *)
(***************************************************************************)

\* The calls of handleScrape.
MaxScans == 2

\* .slice(0, 10)
HistoryLimit == 10

\* What the user types into the URL field.
HistoryUrls == {"https://a.example", "https://b.example", "https://c.example"}

\* What the history holds when the application is opened.
SavedHistories == {<<>>, <<"https://c.example">>}

InitHistory ==
    /\ AppIdle /\ ScanIdle /\ RobotsIdle /\ ScoreIdle
    /\ HeadersIdle /\ ContentIdle /\ ReportIdle
    /\ analyzed = "nothing"
    /\ queries \in SavedHistories
    /\ scans = <<>>

\* onChange of the URL field.
TypeUrl ==
    /\ \E u \in HistoryUrls : url' = u
    /\ UNCHANGED <<ethicalMode, loading, error, currentResult, queries, scans,
                   headerVars, contentVars, analyzed, reportVars,
                   scanVars, robotsVars, scoreVars>>

\* handleScrape up to its first await, called by the Enter key of the URL
\* field (the button is disabled while loading, the key is not): the call
\* keeps the url and the queries of the render it was made in.
StartScan ==
    /\ Len(scans) < MaxScans
    /\ url # ""
    /\ scans' = Append(scans, [url |-> url, queries |-> queries, state |-> "running"])
    /\ loading' = TRUE
    /\ error' = ""
    /\ currentResult' = NoResult
    /\ UNCHANGED <<url, ethicalMode, queries,
                   headerVars, contentVars, analyzed, reportVars,
                   scanVars, robotsVars, scoreVars>>

\* [fullQuery, ...queries.filter(q => q.url !== url)].slice(0, 10)
UpdatedQueries(scanUrl, captured) ==
    LET Other(q) == q # scanUrl
        updated == <<scanUrl>> \o SelectSeq(captured, Other)
    IN  SubSeq(updated, 1, Min(HistoryLimit, Len(updated)))

\* The rest of handleScrape for a scan that succeeds: the result is shown,
\* the history is saved and loading is cleared.
ScanSucceeds ==
    \E i \in 1..Len(scans) :
        /\ scans[i].state = "running"
        /\ currentResult' = [url |-> scans[i].url, present |-> TRUE,
                             subdomains |-> <<>>, prohibited |-> FALSE]
        /\ queries' = UpdatedQueries(scans[i].url, scans[i].queries)
        /\ scans' = [scans EXCEPT ![i].state = "done"]
        /\ loading' = FALSE
        /\ UNCHANGED <<url, ethicalMode, error,
                       headerVars, contentVars, analyzed, reportVars,
                       scanVars, robotsVars, scoreVars>>

\* The rest of handleScrape for a scan that fails: the catch block and the
\* finally block.
ScanFails ==
    \E i \in 1..Len(scans) :
        /\ scans[i].state = "running"
        /\ error' = FetchErrorMessage
        /\ scans' = [scans EXCEPT ![i].state = "failed"]
        /\ loading' = FALSE
        /\ UNCHANGED <<url, ethicalMode, currentResult, queries,
                       headerVars, contentVars, analyzed, reportVars,
                       scanVars, robotsVars, scoreVars>>

NextHistory == TypeUrl \/ StartScan \/ ScanSucceeds \/ ScanFails

SpecHistory == InitHistory /\ [][NextHistory]_vars

(***************************************************************************)
(* Properties of the scan (Spec)                                           *)
(***************************************************************************)

RequestKinds == {requests[i].kind : i \in 1..Len(requests)}

\* C1: in ethical mode, a scan whose policy gate yields scrapingProhibited
\* has stopped at the gate: it has issued no request for the target page or
\* a subdomain (nor any other request after the policy checks), holds no
\* scan result and is no longer loading.
ProhibitedScanFetchesNothing ==
    (ethicalMode /\ scrapingPolicy.scrapingProhibited) =>
        /\ pc = "prohibited"
        /\ RequestKinds \subseteq {"robots", "terms"}
        /\ currentResult = NoResult
        /\ ~loading

\* The gate has refused a scan that robots.txt denies.
ProhibitedScanReached ==
    /\ pc = "prohibited"
    /\ ethicalMode
    /\ scrapingPolicy.scrapingProhibited
    /\ ~scrapingPolicy.robotsTxtAllowed
    /\ Len(requests) >= 2

\* C2: a scan of an entered URL that the sanitizer reports unsafe, or that
\* fails the URL checks (it does not parse, its scheme is not http or https,
\* it has more than 2048 characters, it names a private network), is
\* rejected, and no request of any kind is issued for it.
UnsafeUrlNeverRequested ==
    (pc # "idle" /\ (~sanitizeUserInput(url).isSafe \/ ~validateScrapingUrl(url))) =>
        /\ pc = "rejected"
        /\ requests = <<>>

\* C5: when the request for robots.txt fails or is answered outside 2xx,
\* robotsTxtAllowed is true: in validateRobotsTxt's answer and in the
\* ScrapingPolicy the gate builds from it.
UnobtainableRobotsAllows ==
    robotsState \in {"rejected", "not-ok"} =>
        /\ robotsAllowed
        /\ pc # "policy" => scrapingPolicy.robotsTxtAllowed

\* A scan went past the gate without a robots.txt.
UnobtainableRobotsReached ==
    /\ robotsState \in {"rejected", "not-ok"}
    /\ pc = "done"
    /\ scrapingPolicy.robotsTxtAllowed

\* C6: a network error while fetching robots.txt or probing a terms path
\* never puts the scan into an error state.  While the policy checks run no
\* error is shown and loading stays set; a scan fails only after its request
\* for the page; a rejected robots.txt request counts as allowed; a
\* restriction is found only on a page that was read, so none when every
\* probe was rejected; once both checks are done the gate decision can be
\* taken, and it admits the scan when every policy request was rejected.
PolicyErrorsAreSwallowed ==
    /\ pc = "policy" => error = "" /\ loading
    /\ pc = "failed" => "page" \in RequestKinds
    /\ robotsState = "rejected" => robotsAllowed
    /\ termsProhibited => termsChecked /\ termsFailures < Len(commonPaths)
    /\ termsFailures = Len(commonPaths) => termsIndex = TermsDone /\ ~termsChecked
    /\ (pc = "policy" /\ PolicyChecksDone) => ENABLED (GateProhibits \/ GateAdmits)
    /\ (pc # "policy" /\ robotsState = "rejected" /\ termsFailures = Len(commonPaths))
           => /\ ~scrapingPolicy.scrapingProhibited
              /\ pc \in {"page", "subdomains", "robots-content", "done", "failed", "threw"}

\* Every policy request was rejected and the scan went on to fetch the page.
PolicyErrorsReached ==
    /\ robotsState = "rejected"
    /\ termsFailures = Len(commonPaths)
    /\ pc = "page"
    /\ error = ""

(***************************************************************************)
(* Properties of validateRobotsTxt (SpecRobots)                            *)
(***************************************************************************)

\* C3: when the file has a section for ScrapiiBot/2.0, robotsTxtAllowed is
\* false if that section holds Disallow: / and true if it does not, whatever
\* the other sections hold.
OwnSectionAloneDecides ==
    (robotsChecked = "served" /\ HasSection(robotsFile, UserAgent)) =>
        robotsTxtAllowed = ~FullSiteDisallow(SectionOf(robotsFile, UserAgent))

\* C4: when the file has no section for ScrapiiBot/2.0 and its wildcard
\* section holds Disallow: /, robotsTxtAllowed is false.
WildcardDisallowDenies ==
    ( /\ robotsChecked = "served"
      /\ ~HasSection(robotsFile, UserAgent)
      /\ HasSection(robotsFile, "*")
      /\ FullSiteDisallow(SectionOf(robotsFile, "*")) )
        => ~robotsTxtAllowed

\* A file in upper case with only a wildcard section was denied.
WildcardDisallowReached ==
    /\ robotsChecked = "served"
    /\ ~HasSection(robotsFile, UserAgent)
    /\ HasSection(robotsFile, "*")
    /\ FullSiteDisallow(SectionOf(robotsFile, "*"))
    /\ robotsStyle.case = "upper"
    /\ ~robotsTxtAllowed

\* C7: the decision is the same for every way of writing the file down:
\* letter case of the field names, blank lines between sections, a line
\* feed after the last line.
RobotsDecisionIgnoresStyle ==
    robotsChecked = "served" =>
        \A style \in Styles :
            ValidateRobotsText(RenderRobots(robotsFile, style)) = robotsTxtAllowed

(***************************************************************************)
(* Properties of the scorer (SpecScore, SpecPenalty)                       *)
(***************************************************************************)

\* C8: for every site type, header set, vulnerability counts and context the
\* overall score (and the total it is rounded from) lies within 0..100.
ScoreWithinLimits ==
    calculated = "score" => score.overall \in 0..100 /\ score.total \in 0..100

\* Baseline 95, the largest bonus and no penalty came to 100.
ScoreAtUpperLimitReached ==
    /\ calculated = "score"
    /\ score.baseline = 95
    /\ score.bonus = 13
    /\ score.vulnScore = 0
    /\ score.overall = 100

\* C9: the vulnerability penalty is never positive, never larger than 30 in
\* magnitude, does not shrink in magnitude when one more finding of any
\* severity is counted, and is -30 for 10 critical and 10 high findings.
PenaltyMonotoneAndCapped ==
    calculated = "penalty" =>
        /\ score.vulnScore \in -30..0
        /\ \A severity \in Severities :
              -evaluateVulnerabilitiesRealistically(
                   [vulnerabilities EXCEPT ![severity] = @ + 1]) >= -score.vulnScore
        /\ (vulnerabilities = VulnerabilityData(10, 10, 0, 0)) => score.vulnScore = -30

\* 10 critical and 10 high findings were penalised.
PenaltyAtCapReached ==
    /\ calculated = "penalty"
    /\ vulnerabilities = VulnerabilityData(10, 10, 0, 0)
    /\ score.vulnScore = -30

\* C10: site type ecommerce-standard with CSP and HSTS present and valid,
\* the other tracked headers absent and exactly 1 medium vulnerability
\* scores within 70..85 with a grade from B- to A-.
EcommerceScenarioInBand ==
    ( /\ calculated = "score"
      /\ siteType = "ecommerce-standard"
      /\ CspValid(headers["content-security-policy"])
      /\ HstsValid(headers["strict-transport-security"])
      /\ \A n \in HeaderNames \ {"content-security-policy", "strict-transport-security"} :
            headers[n] = ""
      /\ vulnerabilities = VulnerabilityData(0, 0, 1, 0) )
        => /\ score.overall \in 70..85
           /\ score.grade \in {"B-", "B", "B+", "A-"}

\* The scorer that was called knows the site type.
SiteTypeKnown ==
    IF calculated = "score" THEN siteType \in KnownSiteTypes
    ELSE siteType \in BaselineSiteTypes

\* C11: scoring with a site type the scorer does not know fails with an
\* unknown-site-type error; it neither returns a score on a default baseline
\* nor any other result.  (No entry point of the scorers takes a request for
\* a permissive fallback, so the exception of the claim never applies.)
UnknownSiteTypeFails ==
    (calculated # "nothing" /\ ~SiteTypeKnown) => calculated = "error"

(***************************************************************************)
(* Properties of analyzeSecurityHeaders (SpecHeaders)                      *)
(***************************************************************************)

\* C12: HSTS is reported valid exactly when the header has max-age= followed
\* by an integer of at least 31536000: valid at 31536000, not valid at
\* 31535999, not valid without a max-age or without the header.
HstsValidFromOneYear ==
    analyzed = "headers" =>
        /\ securityHeaders.hsts <=> (sitePolicy.hsts.maxAge # NoMaxAge
                                     /\ sitePolicy.hsts.maxAge >= 31536000)
        /\ sitePolicy.hsts.maxAge = 31536000 => securityHeaders.hsts
        /\ sitePolicy.hsts.maxAge = 31535999 => ~securityHeaders.hsts
        /\ sitePolicy.hsts.maxAge = NoMaxAge => ~securityHeaders.hsts

\* A max-age of exactly one year, written after the other directives, was
\* reported valid.
HstsAtOneYearReached ==
    /\ analyzed = "headers"
    /\ sitePolicy.hsts.maxAge = 31536000
    /\ sitePolicy.hsts.maxAgeLast
    /\ sitePolicy.hsts.includeSubDomains
    /\ securityHeaders.hsts
    /\ securityHeaders.maxAge = 31536000

\* C13: CSP is reported valid exactly when the policy contains default-src
\* and script-src and either has no unsafe-inline or carries a nonce- or
\* sha256- token.
CspValidWhenInlineIsGuarded ==
    analyzed = "headers" =>
        LET directives == CspDirectives(sitePolicy.csp)
            Named(name) ==
                \E i \in 1..Len(directives) : Includes(directives[i].name, name)
            Source(prefix) ==
                \E i \in 1..Len(directives) :
                    \E j \in 1..Len(directives[i].sources) :
                        StartsWith(directives[i].sources[j], prefix)
        IN  securityHeaders.csp <=>
                /\ Named("default-src")
                /\ Named("script-src")
                /\ \/ ~Source("'unsafe-inline'")
                   \/ Source("'nonce-")
                   \/ Source("'sha256-")

\* A policy with both directives and an unguarded unsafe-inline was reported
\* not valid.
UnguardedInlineReached ==
    /\ analyzed = "headers"
    /\ sitePolicy.csp.defaultSrc
    /\ sitePolicy.csp.scriptSrc = "script-src"
    /\ sitePolicy.csp.inline = "script"
    /\ sitePolicy.csp.token = ""
    /\ securityHeaders.cspPresent
    /\ ~securityHeaders.csp

\* C23: without a section for the tool's own agent, scraping is denied only
\* if the wildcard section itself holds the full-site directive; a file whose
\* Disallow rules are partial paths or belong to another agent's section is
\* allowed.
WildcardSectionAloneDenies ==
    (robotsChecked = "served" /\ ~HasSection(robotsFile, UserAgent)) =>
        (robotsTxtAllowed = FALSE =>
            /\ HasSection(robotsFile, "*")
            /\ FullSiteDisallow(SectionOf(robotsFile, "*")))

\* C26: a detected technology that has version patterns of its own carries
\* the version captured by the first of them, in list order, that matches the
\* page; its version is undefined only when none of them matches.
VersionIsFirstMatchingPattern ==
    \A r \in 1..Len(technologyRuns) :
        \A i \in 1..Len(technologyRuns[r]) :
            LET technology == technologyRuns[r][i]
                patterns == versionPatterns(technology.name)
            IN  patterns # <<>> =>
                    technology.version =
                        FirstPatternVersion(ToLowerCase(page), patterns)

\* C27: a signature's text is searched in the lower-cased page, so a
\* technology is detected whatever the letter case of its name in the page.
DetectionIgnoresLetterCase ==
    \A r \in 1..Len(technologyRuns) :
        \A k \in 1..Len(technologySignatures) :
            (\E text \in technologySignatures[k].html :
                 Includes(ToLowerCase(page), text))
                => \E i \in 1..Len(technologyRuns[r]) :
                       technologyRuns[r][i].name = technologySignatures[k].name

\* C21: the analysis is deterministic: two analyses of the same URL, HTML and
\* response headers give the same technologies, header report, SSL analysis,
\* findings and score.
AnalysisIsDeterministic ==
    \A i, j \in 1..Len(analyses) : analyses[i] = analyses[j]

\* C28: the privacy score the application computes, stores and displays is
\* always within 0..100 (here in tenths of a point).
PrivacyScoreWithinLimits ==
    \A i \in 1..Len(analyses) : analyses[i].privacyScore \in 0..1000

\* Is the URL in the history?
InHistory(u) == \E k \in 1..Len(queries) : queries[k] = u

\* C25: scans share no mutable state: when two scans, one started while the
\* other was in progress, have both completed for different URLs, the
\* history holds an entry for each.
ScansDoNotInterfere ==
    \A i, j \in 1..Len(scans) :
        (scans[i].state = "done" /\ scans[j].state = "done"
         /\ scans[i].url # scans[j].url)
            => (InHistory(scans[i].url) /\ InHistory(scans[j].url))

\* C29: provided every request is answered or rejected in the end, a scan
\* that set loading sets it back to false, however it ends: prohibited by the
\* policy, failed fetch, exception in an analyzer, or success.
LoadingIsCleared == loading ~> ~loading

\* A scan that had set loading has ended, in one of the four ways.
ScanEndedReached ==
    /\ pc \in {"prohibited", "failed", "threw", "done"}
    /\ requests # <<>>
    /\ ~loading

\* C22: every tracked header that is absent contributes a non-positive
\* amount to the header component: missingPoints is never positive, so the
\* header score never exceeds presentPoints.
MissingPointsNeverPositive ==
    calculated = "score" =>
        /\ score.headers.missing <= 0
        /\ score.headers.score <= score.headers.present

\* C30: BaselineScorer's vulnerability penalty never lowers the score by more
\* than 20 points, however many vulnerabilities are counted.
BaselinePenaltyAtMostTwenty ==
    calculated = "baseline-penalty" => score.vulnScore \in -20..0

\* The policy paths requested so far, in the order of the requests.
TermsTargets ==
    LET IsTerms(r) == r.kind = "terms"
        asked == SelectSeq(requests, IsTerms)
    IN  [i \in 1..Len(asked) |-> asked[i].target]

\* C24: the policy paths are requested in the order of commonPaths, and once
\* a reachable page holds a restriction term the probing reports restricted
\* and requests none of the later paths; it ends before the last path only
\* in that case.
TermsProbingStopsAtFirstRestriction ==
    [][ /\ TermsTargets' = SubSeq(commonPaths, 1, Len(TermsTargets'))
        /\ termsProhibited' =>
              /\ termsIndex' = TermsDone
              /\ TermsTargets' = TermsTargets
        /\ (termsIndex' = TermsDone /\ Len(TermsTargets') < Len(commonPaths)) =>
              termsProhibited' ]_vars

\* A restriction was found on a later path, after an earlier one had failed,
\* and paths were left unrequested.
TermsRestrictionReached ==
    /\ termsProhibited
    /\ termsFailures > 0
    /\ Len(TermsTargets) \in 2..(Len(commonPaths) - 1)

\* The requests for subdomains so far.
SubdomainRequests == {i \in 1..Len(requests) : requests[i].kind = "subdomain"}

\* C19: a fetch failure or a non-success status on one subdomain never
\* aborts the scans of the remaining subdomains and never fails the parent
\* scan: every attempted subdomain has its own entry with status success or
\* error and, on error, an error message; the loop goes on to the last
\* subdomain and the scan ends with a result.
SubdomainFailuresAreIsolated ==
    /\ pc = "subdomains" => Len(subdomainResults) = Cardinality(SubdomainRequests) - 1
    /\ pc \in {"robots-content", "done"} =>
          /\ Len(subdomainResults) = Cardinality(SubdomainRequests)
          /\ Len(subdomainResults) = subdomains
    /\ \A i \in 1..Len(subdomainResults) :
          /\ subdomainResults[i].status \in {"success", "error"}
          /\ subdomainResults[i].status = "error" => subdomainResults[i].error # ""
    /\ pc = "failed" => SubdomainRequests = {}
    /\ pc = "done" => error = "" /\ currentResult.subdomains = subdomainResults

\* A scan ended with a result after its first subdomain failed and its
\* second was read.
SubdomainFailureSurvived ==
    /\ pc = "done"
    /\ currentResult.present
    /\ Len(subdomainResults) = 2
    /\ subdomainResults[1].status = "error"
    /\ subdomainResults[2].status = "success"

\* C20: when the fetch of the target page fails with status 403, 404, 429,
\* 502, 503 or 504, the operator is shown the explanation of that status and
\* never the 'unidentified error' text.
PageFailureIsExplained ==
    \A st \in {403, 404, 429, 502, 503, 504} :
        (pc = "failed" /\ error = "Error al obtener la URL. Estado: " \o StatusText(st)) =>
            /\ StartsWith(getErrorExplanation(error), "Error " \o StatusText(st))
            /\ ~StartsWith(getErrorExplanation(error), "Error no identificado")

(***************************************************************************)
(* Properties of the content analysis (SpecContent)                        *)
(***************************************************************************)

\* The findings whose text starts with the title.
FindingsTitled(title) ==
    {k \in 1..Len(vulnerableTechnologies) :
        StartsWith(vulnerableTechnologies[k].vulnerability, title)}

\* C14: HTML containing $("#x").html(nombre) produces a jQuery-XSS-via-.html()
\* finding whose severity is high.
JQueryHtmlCallIsReported ==
    (analyzed = "vulnerabilities" /\ Includes(page, "$(\"#x\").html(nombre)")) =>
        \E k \in FindingsTitled("jQuery XSS via .html()") :
            vulnerableTechnologies[k].severity = "high"

\* The call was analysed on the second line of a page and reported there.
JQueryHtmlCallReached ==
    /\ analyzed = "vulnerabilities"
    /\ page = "<p>hello</p>\n$(\"#x\").html(nombre)"
    /\ \E k \in FindingsTitled("jQuery XSS via .html()") :
          /\ vulnerableTechnologies[k].severity = "high"
          /\ vulnerableTechnologies[k].lineNumbers = <<2>>

\* C15: HTML whose only innerHTML use assigns a string literal
\* (div.innerHTML = "<b>static</b>") produces no unsafe-innerHTML finding.
LiteralInnerHtmlIsNotReported ==
    LET lines == SplitLines(page)
        uses == {i \in 1..Len(lines) : Includes(lines[i], "innerHTML")}
    IN  (/\ analyzed = "vulnerabilities"
         /\ uses # {}
         /\ \A i \in uses : lines[i] = "div.innerHTML = \"<b>static</b>\"")
        => FindingsTitled("Potential XSS via innerHTML assignment") = {}

\* C16: the findings list holds exactly one finding for each vulnerability
\* rule matched by a detected technology and exactly one for each code
\* pattern that matches the HTML, and no finding from any other source.
FindingsAreRulesAndPatterns ==
    analyzed = "vulnerabilities" =>
        LET technologies == technologyRuns[1]
            findings == vulnerableTechnologies
            matchedRules ==
                {<<i, r>> \in (1..Len(technologies)) \X (1..Len(vulnerabilityDatabase)) :
                    RuleMatches(vulnerabilityDatabase[r], technologies[i])}
            matchedPatterns ==
                {p \in 1..Len(vulnerablePatterns) :
                    PatternMatches(vulnerablePatterns[p].pattern, page)}
        IN  /\ \A m \in matchedRules :
                  Cardinality({k \in 1..Len(findings) :
                                  /\ findings[k].name = technologies[m[1]].name
                                  /\ findings[k].vulnerability
                                        = vulnerabilityDatabase[m[2]].vulnerability}) = 1
            /\ \A p \in matchedPatterns :
                  Cardinality({k \in 1..Len(findings) :
                                  /\ findings[k].name = "JavaScript Code Pattern"
                                  /\ findings[k].vulnerability
                                        = vulnerablePatterns[p].vulnerability}) = 1
            /\ Len(findings) = Cardinality(matchedRules) + Cardinality(matchedPatterns)

AlphabeticallyBefore(a, b) == CodeUnitLess(ToLowerCase(a), ToLowerCase(b))

\* C18: the list returned by detectTechnologies is in alphabetical order of
\* technology name and contains no name twice.
TechnologiesAlphabeticalAndUnique ==
    \A r \in 1..Len(technologyRuns) :
        \A i, j \in 1..Len(technologyRuns[r]) :
            i < j => AlphabeticallyBefore(technologyRuns[r][i].name,
                                          technologyRuns[r][j].name)

=============================================================================
